---------------------------- MODULE Spec2Model ----------------------------
(***************************************************************************)
(* NanoCron: the due-job predicate (CronEngine), the job loader            *)
(* (JobConfig), the configuration store and its reload watcher             *)
(* (ConfigWatcher) and the scheduler loop (nanoCron.cpp main).             *)
(*                                                                         *)
(* The specifications of the module:                                       *)
(*   SpecEngine  shouldRunJob applied to inputs drawn from bounded sets;   *)
(*   SpecLoader  loadJobs applied to schedules drawn from bounded sets;    *)
(*   SpecPaths   loadJobs on one entry of each schedule format;            *)
(*   SpecCond    checkJobConditions on thresholds and readings;            *)
(*   SpecExec    executeJob applied to command behaviours;                 *)
(*   SpecWatch   startWatching and stopWatching called in any order;       *)
(*   SpecDaemon  main() from startWatching to the end of the process, with *)
(*               the watcher thread, the signal handler and fair threads;  *)
(*   Spec        the scheduler loop, one step per job of a tick, with the  *)
(*               clock, the ledger and reloads publishing between steps;   *)
(*   SpecWarn    the loop's warning about an empty job set;                *)
(*   SpecEquiv   construction of the store against a reload;               *)
(*   SpecStore   the store at the grain of its file reads and of its       *)
(*               mutex: watcher thread, main thread, file writes;          *)
(*   SpecRace    forceReload, getJobs and isConfigValid against the        *)
(*               watcher thread's reloads.                                 *)
(***************************************************************************)
EXTENDS Integers, Sequences, FiniteSets, TLC

VARIABLES
    eng,                  \* SpecEngine: [job, local_time, last_exec, result]
    currentJobs,          \* ConfigWatcher::currentJobs: a heap cell
    heap,                 \* the vectors the shared pointers point to
    cpuUsage,             \* the reading getCurrentCpuUsage() returns now
    clock,                \* wall clock, in ticks of TickSeconds
    pc,                   \* scheduler loop position
    local_time,           \* the time captured at the start of the tick
    tickJobs,             \* main's currentJobs (the snapshot of this tick)
    idx,                  \* position of the range-for over *currentJobs
    last_execution,       \* the ledger
    lastFire,             \* history: calendar minute of each command's last dispatch
    result,               \* what the last executeJob of this tick logged
    file,                 \* content of the configuration file
    pending,              \* inotify events queued on inotifyFd
    wpc,                  \* watcher thread position in watcherLoop
    rl,                   \* per thread: the frame of validateAndLoadConfig
    mutex,                \* holder of cacheMutex
    mpc,                  \* main thread position (SpecStore)
    snap,                 \* value returned by the main thread's last getJobs
    isWatching,
    shouldStop,
    shouldExit,           \* nanoCron.cpp: the shutdown flag
    executing,            \* per command: its executions in progress
    inotifyFd,            \* ConfigWatcher::inotifyFd, with its watchDescriptor
    openFds,              \* inotify descriptors open in the process
    watch,                \* the kernel watches the file for inotifyFd
    threads               \* threads running watcherLoop

vars == <<eng, currentJobs, heap, cpuUsage, clock, pc, local_time, tickJobs, idx,
          last_execution, lastFire, result, file, pending, wpc, rl, mutex, mpc, snap,
          isWatching, shouldStop, shouldExit, executing, inotifyFd, openFds, watch,
          threads>>

schedVars == <<clock, pc, local_time, tickJobs, idx, last_execution, lastFire, result,
               shouldExit, executing>>
storeVars == <<file, pending, wpc, rl, mutex, mpc, snap, isWatching, shouldStop,
               inotifyFd, openFds, watch, threads>>
sharedVars == <<currentJobs, heap, cpuUsage>>

(***************************************************************************)
(* Bounds of the model.                                                    *)
(***************************************************************************)
MaxDay == 1            \* days 0..MaxDay are simulated
MaxExecTicks == 3      \* an execution lasts 0..MaxExecTicks clock ticks
MaxCalls == 5          \* calls of startWatching and stopWatching in SpecWatch

(***************************************************************************)
(* Program constants.                                                      *)
(***************************************************************************)
TickSeconds == 20
TimeoutSeconds == 300
WildcardMarker == -1
IntervalMarker == -2

TicksPerMinute == 60 \div TickSeconds

Frequencies == {"DAILY", "WEEKLY", "MONTHLY", "YEARLY", "WEEKDAY", "WEEKEND"}

Commands == {"", "X", "Y"}

Null == 0
Dangling == -1
NoFd == -1             \* inotifyFd and watchDescriptor when nothing is open
OpenFd == 3            \* a descriptor returned by inotify_init1
NoEntry == <<>>

(***************************************************************************)
(* Text: a schedule field is a sequence of characters.                     *)
(***************************************************************************)
Star == <<"*">>
Digits == {"0", "1", "2", "3", "4", "5", "6", "7", "8", "9"}

DigitValue(c) ==
    CASE c = "0" -> 0 [] c = "1" -> 1 [] c = "2" -> 2 [] c = "3" -> 3
      [] c = "4" -> 4 [] c = "5" -> 5 [] c = "6" -> 6 [] c = "7" -> 7
      [] c = "8" -> 8 [] c = "9" -> 9

RECURSIVE SkipSpace(_)
SkipSpace(s) == IF s # <<>> /\ Head(s) = " " THEN SkipSpace(Tail(s)) ELSE s

RECURSIVE DigitRun(_, _)
DigitRun(s, acc) ==
    IF s # <<>> /\ Head(s) \in Digits
    THEN DigitRun(Tail(s), 10 * acc + DigitValue(Head(s)))
    ELSE acc

\* std::stoi: leading blanks, an optional sign, then the longest run of digits;
\* what follows the digits is ignored; no digit at all throws.
Stoi(str) ==
    LET s == SkipSpace(str)
        neg == s # <<>> /\ Head(s) = "-"
        t == IF s # <<>> /\ Head(s) \in {"-", "+"} THEN Tail(s) ELSE s
    IN  IF t = <<>> \/ Head(t) \notin Digits
        THEN [ok |-> FALSE, val |-> 0]
        ELSE [ok |-> TRUE, val |-> IF neg THEN 0 - DigitRun(t, 0) ELSE DigitRun(t, 0)]


(***************************************************************************)
(* JSON values and documents.  A document is the file as a read finds it:  *)
(* unreadable, not parseable, or a JSON object that may hold a "jobs"      *)
(* array of entries.                                                       *)
(***************************************************************************)
JAbsent == [type |-> "absent", val |-> ""]
JString(s) == [type |-> "string", val |-> s]
JNumber == [type |-> "number", val |-> ""]

Unreadable == [kind |-> "unreadable", hasJobs |-> FALSE, jobs |-> <<>>]
Malformed == [kind |-> "malformed", hasJobs |-> FALSE, jobs |-> <<>>]
JsonDoc(entries) == [kind |-> "json", hasJobs |-> TRUE, jobs |-> entries]
NoJobsArray == [kind |-> "json", hasJobs |-> FALSE, jobs |-> <<>>]

ScheduleObject(mi, ho, dom, mo, dow) ==
    [type |-> "object", minute |-> mi, hour |-> ho, day_of_month |-> dom,
     month |-> mo, day_of_week |-> dow]

NoConditions == [present |-> FALSE, cpu_threshold |-> <<>>]
CpuCondition(t) == [present |-> TRUE, cpu_threshold |-> t]

Entry(desc, cmd, sched, cond) ==
    [description |-> desc, command |-> cmd, schedule |-> sched, conditions |-> cond]

(***************************************************************************)
(* JobConfig: derivation of the legacy fields, condition check, parsing.   *)
(***************************************************************************)
\* A mutant of ParseScheduleToLegacyFormat: month is looked at before
\* day_of_month.
ParseScheduleMonthFirst(job) ==
    LET sc == job.schedule
        mi == IF sc.minute = Star THEN [ok |-> TRUE, val |-> -1] ELSE Stoi(sc.minute)
        ho == IF sc.hour = Star THEN [ok |-> TRUE, val |-> -1] ELSE Stoi(sc.hour)
        dp == IF sc.day_of_month = Star THEN [ok |-> TRUE, val |-> -1]
              ELSE Stoi(sc.day_of_month)
        mp == IF sc.month = Star THEN [ok |-> TRUE, val |-> -1] ELSE Stoi(sc.month)
        freq == IF sc.day_of_week = <<"1", "-", "5">> THEN "WEEKDAY"
                ELSE IF sc.day_of_week = <<"0", ",", "6">>
                        \/ sc.day_of_week = <<"6", ",", "0">> THEN "WEEKEND"
                ELSE IF sc.day_of_week # Star THEN "WEEKLY"
                ELSE IF sc.month # Star THEN "YEARLY"
                ELSE IF sc.day_of_month # Star THEN "MONTHLY"
                ELSE "DAILY"
    IN  IF mi.ok /\ ho.ok /\ dp.ok /\ mp.ok
        THEN [job EXCEPT !.minute = mi.val, !.hour = ho.val, !.day_param = dp.val,
                         !.month_param = mp.val, !.frequency = freq]
        ELSE [job EXCEPT !.minute = -1, !.hour = -1, !.day_param = -1,
                         !.month_param = -1, !.frequency = "DAILY"]

\* JobConfig::parseScheduleToLegacyFormat: the four stoi calls come first, in
\* this order; if any throws, every derived field gets its default.
ParseScheduleToLegacyFormat(job) ==
    LET sc == job.schedule
        mi == IF sc.minute = Star THEN [ok |-> TRUE, val |-> -1] ELSE Stoi(sc.minute)
        ho == IF sc.hour = Star THEN [ok |-> TRUE, val |-> -1] ELSE Stoi(sc.hour)
        dp == IF sc.day_of_month = Star THEN [ok |-> TRUE, val |-> -1]
              ELSE Stoi(sc.day_of_month)
        mp == IF sc.month = Star THEN [ok |-> TRUE, val |-> -1] ELSE Stoi(sc.month)
        freq == IF sc.day_of_week = <<"1", "-", "5">> THEN "WEEKDAY"
                ELSE IF sc.day_of_week = <<"0", ",", "6">>
                        \/ sc.day_of_week = <<"6", ",", "0">> THEN "WEEKEND"
                ELSE IF sc.day_of_week # Star THEN "WEEKLY"
                ELSE IF sc.day_of_month # Star THEN "MONTHLY"
                ELSE IF sc.month # Star THEN "YEARLY"
                ELSE "DAILY"
    IN  IF mi.ok /\ ho.ok /\ dp.ok /\ mp.ok
        THEN [job EXCEPT !.minute = mi.val, !.hour = ho.val, !.day_param = dp.val,
                         !.month_param = mp.val, !.frequency = freq]
        ELSE [job EXCEPT !.minute = -1, !.hour = -1, !.day_param = -1,
                         !.month_param = -1, !.frequency = "DAILY"]

\* std::stof on the text of a threshold: leading blanks, an optional sign,
\* then "nan", "inf", or digits with an optional fraction; what follows is
\* ignored; no digit at all throws.  The value is kept in tenths (one digit
\* of the fraction); exponents and upper-case spellings are left out.
Stof(str) ==
    LET s == SkipSpace(str)
        neg == s # <<>> /\ Head(s) = "-"
        t == IF s # <<>> /\ Head(s) \in {"-", "+"} THEN Tail(s) ELSE s
        StartsWith(p) == Len(t) >= Len(p) /\ SubSeq(t, 1, Len(p)) = p
        RECURSIVE AfterDigits(_)
        AfterDigits(r) == IF r # <<>> /\ Head(r) \in Digits THEN AfterDigits(Tail(r)) ELSE r
        rest == AfterDigits(t)
        frac == IF rest # <<>> /\ Head(rest) = "." THEN Tail(rest) ELSE <<>>
        fracDigit == frac # <<>> /\ Head(frac) \in Digits
        tenths == 10 * DigitRun(t, 0) + (IF fracDigit THEN DigitValue(Head(frac)) ELSE 0)
    IN  IF StartsWith(<<"n", "a", "n">>) THEN [ok |-> TRUE, kind |-> "nan", val |-> 0]
        ELSE IF StartsWith(<<"i", "n", "f">>)
        THEN [ok |-> TRUE, kind |-> IF neg THEN "-inf" ELSE "+inf", val |-> 0]
        ELSE IF rest = t /\ ~fracDigit THEN [ok |-> FALSE, kind |-> "none", val |-> 0]
        ELSE [ok |-> TRUE, kind |-> "finite", val |-> IF neg THEN 0 - tenths ELSE tenths]

\* JobConfig::evaluateThreshold: "<n" or ">n", an optional trailing '%'.
\* currentValue is a whole number of percent.  value_str.back() on the empty
\* value of "<" or ">" is taken here as a character other than '%'.
EvaluateThreshold(currentValue, threshold) ==
    IF threshold = <<>> THEN TRUE
    ELSE LET op == Head(threshold)
             raw == Tail(threshold)
             value_str == IF raw # <<>> /\ raw[Len(raw)] = "%"
                          THEN SubSeq(raw, 1, Len(raw) - 1) ELSE raw
             num == Stof(value_str)
         IN  IF op # "<" /\ op # ">" THEN TRUE
             ELSE IF ~num.ok THEN TRUE
             ELSE IF num.kind = "nan" THEN FALSE
             ELSE IF num.kind = "+inf" THEN op = "<"
             ELSE IF num.kind = "-inf" THEN op = ">"
             ELSE IF op = "<" THEN 10 * currentValue < num.val
             ELSE 10 * currentValue > num.val

\* JobConfig::checkJobConditions on the CPU condition; cpu is the reading, negative
\* when /proc/stat cannot be read.
CheckJobConditions(conditions, cpu) ==
    IF conditions.cpu_threshold = <<>> THEN TRUE
    ELSE IF cpu < 0 THEN TRUE
    ELSE EvaluateThreshold(cpu, conditions.cpu_threshold)

\* JobConfig::parseScheduleFromString: the text is read as whitespace
\* separated words; with five words or more the first five become the
\* schedule fields, with fewer the schedule keeps its empty fields.
ParseScheduleFromString(job, cron_str) ==
    LET RECURSIVE Words(_, _, _)
        Words(s, word, acc) ==
            IF s = <<>> THEN (IF word = <<>> THEN acc ELSE Append(acc, word))
            ELSE IF Head(s) = " "
            THEN Words(Tail(s), <<>>, IF word = <<>> THEN acc ELSE Append(acc, word))
            ELSE Words(Tail(s), Append(word, Head(s)), acc)
        w == Words(cron_str, <<>>, <<>>)
    IN  IF Len(w) >= 5
        THEN [job EXCEPT !.schedule = [minute |-> w[1], hour |-> w[2],
                                       day_of_month |-> w[3], month |-> w[4],
                                       day_of_week |-> w[5]]]
        ELSE job

\* JobConfig::convertLegacyToSchedule: the schedule texts are written from the
\* legacy integers (std::to_string, "*" for -1) and from job.frequency, which
\* the function reads and never writes.
ConvertLegacyToSchedule(job) ==
    LET RECURSIVE to_string(_)
        to_string(n) ==
            IF n < 0 THEN <<"-">> \o to_string(-n)
            ELSE IF n < 10 THEN <<CHOOSE c \in Digits : DigitValue(c) = n>>
            ELSE to_string(n \div 10) \o to_string(n % 10)
        Text(n) == IF n = -1 THEN Star ELSE to_string(n)
    IN  [job EXCEPT !.schedule =
            [minute |-> Text(job.minute), hour |-> Text(job.hour),
             day_of_month |-> Text(job.day_param), month |-> Text(job.month_param),
             day_of_week |-> CASE job.frequency = "WEEKDAY" -> <<"1", "-", "5">>
                               [] job.frequency = "WEEKEND" -> <<"0", ",", "6">>
                               [] OTHER -> Star]]

\* The job one entry yields: lines 57-103 of parseJobsFromJson.  A schedule
\* that is a string or an object is read and the legacy fields are derived
\* from it; a schedule of another type is not read and the derivation sees
\* the empty fields.  An entry without "schedule" takes hour, minute, day
\* and month from the entry (-1 when absent) and leaves job.frequency as the
\* declaration `CronJob job;` left it: the record of such an entry carries
\* that indeterminate value in its field frequency.
JobOfEntry(e) ==
    LET empty == [minute |-> <<>>, hour |-> <<>>, day_of_month |-> <<>>,
                  month |-> <<>>, day_of_week |-> <<>>]
        raw == [description |-> e.description.val,
                command |-> e.command.val,
                schedule |-> IF e.schedule.type = "object"
                             THEN [minute |-> e.schedule.minute,
                                   hour |-> e.schedule.hour,
                                   day_of_month |-> e.schedule.day_of_month,
                                   month |-> e.schedule.month,
                                   day_of_week |-> e.schedule.day_of_week]
                             ELSE empty,
                conditions |-> [cpu_threshold |->
                                   IF e.conditions.present
                                   THEN e.conditions.cpu_threshold ELSE <<>>],
                hour |-> 0, minute |-> 0, frequency |-> "DAILY",
                day_param |-> 0, month_param |-> 0]
    IN  IF e.schedule.type = "absent"
        THEN ConvertLegacyToSchedule(
                 [raw EXCEPT !.hour = e.schedule.hour,
                             !.minute = e.schedule.minute,
                             !.day_param = e.schedule.day,
                             !.month_param = e.schedule.month,
                             !.frequency = e.schedule.frequency])
        ELSE IF e.schedule.type = "string"
        THEN ParseScheduleToLegacyFormat(ParseScheduleFromString(raw, e.schedule.val))
        ELSE ParseScheduleToLegacyFormat(raw)

\* The loop of parseJobsFromJson: an entry without description or command is
\* skipped; get<std::string>() on a value of another type throws, and the
\* catch returns the empty vector; a job whose conditions are not met at this
\* moment is not added.
RECURSIVE ParseEntries(_, _, _)
ParseEntries(entries, jobs, cpu) ==
    IF entries = <<>> THEN jobs
    ELSE LET e == Head(entries)
         IN  IF e.description.type = "absent" \/ e.command.type = "absent"
             THEN ParseEntries(Tail(entries), jobs, cpu)
             ELSE IF e.description.type # "string" \/ e.command.type # "string"
             THEN <<>>
             ELSE LET job == JobOfEntry(e)
                  IN  IF CheckJobConditions(job.conditions, cpu)
                      THEN ParseEntries(Tail(entries), Append(jobs, job), cpu)
                      ELSE ParseEntries(Tail(entries), jobs, cpu)

ParseJobsFromJson(j, cpu) ==
    IF ~j.hasJobs THEN <<>> ELSE ParseEntries(j.jobs, <<>>, cpu)

\* JobConfig::loadJobs: every failure yields the empty vector.
LoadJobs(f, cpu) ==
    IF f.kind = "unreadable" THEN <<>>
    ELSE IF f.kind = "malformed" THEN <<>>
    ELSE ParseJobsFromJson(f, cpu)

ValidateJobsFile(f) ==
    IF f.kind = "unreadable" THEN FALSE
    ELSE IF f.kind = "malformed" THEN FALSE
    ELSE IF ~f.hasJobs THEN FALSE
    ELSE \A i \in 1..Len(f.jobs) :
            f.jobs[i].description.type # "absent" /\ f.jobs[i].command.type # "absent"

(***************************************************************************)
(* CronEngine::shouldRunJob.                                               *)
(***************************************************************************)
\* A mutant of ShouldRunJob: YEARLY compares tm_mon, which counts from 0, with
\* month_param.
ShouldRunJobMonthFromZero(job, lt, last_exec) ==
    LET minute_match == job.minute = WildcardMarker \/ job.minute = IntervalMarker
                        \/ job.minute = lt.tm_min
        hour_match == job.hour = WildcardMarker \/ job.hour = lt.tm_hour
    IN  IF ~minute_match \/ ~hour_match THEN FALSE
        ELSE IF last_exec[job.command] # NoEntry
                /\ last_exec[job.command][1] = lt.tm_hour
                /\ last_exec[job.command][2] = lt.tm_min THEN FALSE
        ELSE CASE job.frequency = "DAILY" -> TRUE
               [] job.frequency = "WEEKLY" -> lt.tm_wday = job.day_param
               [] job.frequency = "MONTHLY" -> lt.tm_mday = job.day_param
               [] job.frequency = "YEARLY" ->
                    lt.tm_mday = job.day_param /\ lt.tm_mon = job.month_param
               [] job.frequency = "WEEKDAY" -> lt.tm_wday >= 1 /\ lt.tm_wday <= 5
               [] job.frequency = "WEEKEND" -> lt.tm_wday = 0 \/ lt.tm_wday = 6
               [] OTHER -> FALSE

\* A mutant of ShouldRunJob: the test of the ledger (lines 23-28) is missing.
ShouldRunJobNoLedger(job, lt, last_exec) ==
    LET minute_match == job.minute = WildcardMarker \/ job.minute = IntervalMarker
                        \/ job.minute = lt.tm_min
        hour_match == job.hour = WildcardMarker \/ job.hour = lt.tm_hour
    IN  IF ~minute_match \/ ~hour_match THEN FALSE
        ELSE CASE job.frequency = "DAILY" -> TRUE
               [] job.frequency = "WEEKLY" -> lt.tm_wday = job.day_param
               [] job.frequency = "MONTHLY" -> lt.tm_mday = job.day_param
               [] job.frequency = "YEARLY" ->
                    lt.tm_mday = job.day_param /\ (lt.tm_mon + 1) = job.month_param
               [] job.frequency = "WEEKDAY" -> lt.tm_wday >= 1 /\ lt.tm_wday <= 5
               [] job.frequency = "WEEKEND" -> lt.tm_wday = 0 \/ lt.tm_wday = 6
               [] OTHER -> FALSE

ShouldRunJob(job, lt, last_exec) ==
    LET minute_match == job.minute = WildcardMarker \/ job.minute = IntervalMarker
                        \/ job.minute = lt.tm_min
        hour_match == job.hour = WildcardMarker \/ job.hour = lt.tm_hour
    IN  IF ~minute_match \/ ~hour_match THEN FALSE
        ELSE IF last_exec[job.command] # NoEntry
                /\ last_exec[job.command][1] = lt.tm_hour
                /\ last_exec[job.command][2] = lt.tm_min THEN FALSE
        ELSE CASE job.frequency = "DAILY" -> TRUE
               [] job.frequency = "WEEKLY" -> lt.tm_wday = job.day_param
               [] job.frequency = "MONTHLY" -> lt.tm_mday = job.day_param
               [] job.frequency = "YEARLY" ->
                    lt.tm_mday = job.day_param /\ (lt.tm_mon + 1) = job.month_param
               [] job.frequency = "WEEKDAY" -> lt.tm_wday >= 1 /\ lt.tm_wday <= 5
               [] job.frequency = "WEEKEND" -> lt.tm_wday = 0 \/ lt.tm_wday = 6
               [] OTHER -> FALSE

(***************************************************************************)
(* SpecEngine: shouldRunJob on jobs, times and ledgers drawn from the ends *)
(* of the calendar ranges.  EngRecord is the ledger write main performs    *)
(* after a dispatch, so that the same minute is queried again.             *)
(***************************************************************************)
EngMinutes == {0, 59}
EngHours == {0, 23}
EngWdays == 0..6
EngMdays == {1, 31}
EngMons == {0, 11}

EngJobs ==
    [command : {"X"},
     minute : {IntervalMarker, WildcardMarker} \cup EngMinutes,
     hour : {WildcardMarker} \cup EngHours,
     frequency : Frequencies,
     day_param : {-1, 1, 3, 31},
     month_param : {1, 12}]

EngTimes ==
    [tm_min : EngMinutes, tm_hour : EngHours, tm_wday : EngWdays,
     tm_mday : EngMdays, tm_mon : EngMons]

EngLedgers ==
    {[c \in Commands |-> IF c = "X" THEN e ELSE IF c = "Y" THEN <<0, 0>> ELSE NoEntry] :
        e \in {NoEntry} \cup (EngHours \X EngMinutes)}

EngIdle ==
    [job |-> [command |-> "X", minute |-> 0, hour |-> 0, frequency |-> "DAILY",
              day_param |-> -1, month_param |-> 1],
     local_time |-> [tm_min |-> 0, tm_hour |-> 0, tm_wday |-> 0, tm_mday |-> 1,
                     tm_mon |-> 0],
     last_exec |-> [c \in Commands |-> NoEntry],
     evaluated |-> FALSE, result |-> FALSE]

EngEvaluate ==
    /\ ~eng.evaluated
    /\ eng' = [eng EXCEPT !.evaluated = TRUE,
                          !.result = ShouldRunJob(eng.job, eng.local_time, eng.last_exec)]
    /\ UNCHANGED <<sharedVars, schedVars, storeVars>>

EngRecord ==
    /\ eng.evaluated
    /\ eng.result
    /\ eng' = [eng EXCEPT !.evaluated = FALSE, !.result = FALSE,
                          !.last_exec[eng.job.command] =
                              <<eng.local_time.tm_hour, eng.local_time.tm_min>>]
    /\ UNCHANGED <<sharedVars, schedVars, storeVars>>

(***************************************************************************)
(* The heap of job vectors.  A std::shared_ptr is the id of a cell; a cell *)
(* is freed when its last owner lets go of it.                             *)
(***************************************************************************)
CellIds == {1, 2, 3}
Free == [live |-> FALSE, jobs |-> <<>>]
Vector(jobs) == [live |-> TRUE, jobs |-> jobs]

MinOf(S) == CHOOSE x \in S : \A y \in S : x <= y

\* The mutant of Publish: the new jobs are written into the published vector.
PublishInPlace(h, cur, held, jobs) ==
    [heap |-> [h EXCEPT ![cur] = Vector(jobs)], currentJobs |-> cur]

\* make_shared (ConfigWatcher.cpp:306,309) followed by currentJobs = newJobs
\* (line 273): a fresh vector takes the place of the published one, which is
\* freed unless a snapshot in `held` still owns it.
Publish(h, cur, held, jobs) ==
    LET new == MinOf(CellIds \ (held \cup {cur}))
        h1 == [h EXCEPT ![new] = Vector(jobs)]
    IN  [heap |-> IF cur \in CellIds /\ cur \notin held
                  THEN [h1 EXCEPT ![cur] = Free] ELSE h1,
         currentJobs |-> new]

\* A snapshot owner lets go of cell c; cur is the published cell.
Release(h, c, cur) ==
    IF c \in CellIds /\ c # cur THEN [h EXCEPT ![c] = Free] ELSE h

(***************************************************************************)
(* ConfigWatcher: loading and reloading, as functions of what each read of *)
(* the file finds (ft: the open at line 293, fl: the read in loadJobs) and *)
(* of the CPU reading at the moment of the load.                           *)
(***************************************************************************)
LoadJobsFromFile(ft, fl, cpu) ==
    IF ft.kind = "unreadable" THEN [null |-> TRUE, jobs |-> <<>>]
    ELSE [null |-> FALSE, jobs |-> LoadJobs(fl, cpu)]

\* The constructor: a failed load leaves an empty vector.
ConstructorJobs(ft, fl, cpu) == LoadJobsFromFile(ft, fl, cpu).jobs

HasEmptyCommand(jobs) == \E i \in 1..Len(jobs) : jobs[i].command = ""

\* validateAndLoadConfig, fv being what validateJobsFile reads.
ValidateAndLoadConfig(fv, ft, fl, cpu) ==
    LET newJobs == LoadJobsFromFile(ft, fl, cpu)
    IN  IF ~ValidateJobsFile(fv) THEN [ok |-> FALSE, jobs |-> <<>>]
        ELSE IF newJobs.null THEN [ok |-> FALSE, jobs |-> <<>>]
        ELSE IF HasEmptyCommand(newJobs.jobs) THEN [ok |-> FALSE, jobs |-> <<>>]
        ELSE [ok |-> TRUE, jobs |-> newJobs.jobs]

(***************************************************************************)
(* The configuration files of the model.                                   *)
(***************************************************************************)
Sched(mi, ho) == ScheduleObject(mi, ho, Star, Star, Star)
Below50 == <<"<", "5", "0">>

DocDaily ==
    JsonDoc(<<Entry(JString("d"), JString("X"), Sched(<<"1">>, <<"0">>), NoConditions)>>)
DocTwo ==
    JsonDoc(<<Entry(JString("d"), JString("X"), Sched(Star, Star), NoConditions),
              Entry(JString("d"), JString("X"), Sched(Star, <<"1">>), NoConditions)>>)
DocGated ==
    JsonDoc(<<Entry(JString("d"), JString("Y"), Sched(<<"1">>, <<"1">>), CpuCondition(Below50))>>)
DocEmptyCommand ==
    JsonDoc(<<Entry(JString("d"), JString("X"), Sched(Star, Star), NoConditions),
              Entry(JString("d"), JString(""), Sched(Star, Star), NoConditions)>>)
DocMissingField ==
    JsonDoc(<<Entry(JString("d"), JAbsent, Sched(Star, Star), NoConditions)>>)
DocWrongType ==
    JsonDoc(<<Entry(JString("d"), JNumber, Sched(Star, Star), NoConditions)>>)

Files == {DocDaily, DocTwo, DocGated, DocEmptyCommand, DocMissingField, DocWrongType,
          Malformed, Unreadable}

CpuReadings == {10, 90}

(***************************************************************************)
(* Initial state: the ConfigWatcher constructor has loaded the file once   *)
(* (ConfigWatcher.cpp:24-36), main has not entered its loop, no watcher    *)
(* thread exists.                                                          *)
(***************************************************************************)
\* The frame of validateAndLoadConfig in a thread.  overtaken is bookkeeping
\* of the model: the other thread has read another content of the file after
\* this frame has read its own.
NoFrame ==
    [pc |-> "idle", newJobs |-> <<>>, loaded |-> Unreadable, result |-> "none",
     overtaken |-> FALSE]
Threads == {"watcher", "main"}
NoOne == "unlocked"

\* A mutant of Constructor: no fallback when loadJobsFromFile returns nullptr.
ConstructorNoFallback(ft, fl, cpu) ==
    IF LoadJobsFromFile(ft, fl, cpu).null
    THEN [currentJobs |-> Null, heap |-> [c \in CellIds |-> Free]]
    ELSE [currentJobs |-> 1,
          heap |-> [c \in CellIds |->
                      IF c = 1 THEN Vector(LoadJobsFromFile(ft, fl, cpu).jobs) ELSE Free]]

\* ConfigWatcher::ConfigWatcher, lines 28-35: the pointer loadJobsFromFile
\* returns, or a fresh empty vector when it returns nullptr.
Constructor(ft, fl, cpu) ==
    IF LoadJobsFromFile(ft, fl, cpu).null
    THEN [currentJobs |-> 1,
          heap |-> [c \in CellIds |-> IF c = 1 THEN Vector(<<>>) ELSE Free]]
    ELSE [currentJobs |-> 1,
          heap |-> [c \in CellIds |->
                      IF c = 1 THEN Vector(LoadJobsFromFile(ft, fl, cpu).jobs) ELSE Free]]

InitShared(files) ==
    \E f \in files, cpu \in CpuReadings :
        /\ file = f
        /\ cpuUsage = cpu
        /\ currentJobs = Constructor(f, f, cpu).currentJobs
        /\ heap = Constructor(f, f, cpu).heap

InitSched ==
    /\ clock = 0
    /\ pc = "tick"
    /\ local_time = [tm_min |-> 0, tm_hour |-> 0, tm_wday |-> 0, tm_mday |-> 1,
                     tm_mon |-> 0, tm_yday |-> 0]
    /\ tickJobs = Null
    /\ idx = 1
    /\ last_execution = [c \in Commands |-> NoEntry]
    /\ lastFire = [c \in Commands |-> NoEntry]
    /\ result = "none"
    /\ shouldExit = FALSE
    /\ executing = [c \in Commands |-> 0]

InitStore ==
    /\ pending = FALSE
    /\ wpc = "none"
    /\ rl = [t \in Threads |-> NoFrame]
    /\ mutex = NoOne
    /\ mpc = "ready"
    /\ snap = Null
    /\ isWatching = FALSE
    /\ shouldStop = FALSE
    /\ inotifyFd = NoFd
    /\ openFds = 0
    /\ watch = FALSE
    /\ threads = 0

SchedFiles == {DocDaily, DocTwo, DocGated}

Init == eng = EngIdle /\ InitShared(SchedFiles) /\ InitSched /\ InitStore

InitEngine ==
    /\ eng \in [job : EngJobs, local_time : EngTimes, last_exec : EngLedgers,
                evaluated : {FALSE}, result : {FALSE}]
    /\ file = DocDaily
    /\ cpuUsage = 10
    /\ currentJobs = 1
    /\ heap = [c \in CellIds |->
                  IF c = 1 THEN Vector(ConstructorJobs(DocDaily, DocDaily, 10)) ELSE Free]
    /\ InitSched
    /\ InitStore

NextEngine == EngEvaluate \/ EngRecord

SpecEngine == InitEngine /\ [][NextEngine]_vars

(***************************************************************************)
(* SpecLoader: JobConfig::loadJobs applied to a document of two entries,   *)
(* the first with a schedule drawn from the fields below, the second a     *)
(* plain one; the first loaded job is then put to shouldRunJob.            *)
(***************************************************************************)
LdMinutes == {Star, <<"0">>, <<"5", "9">>, <<"7", "5">>, <<"-", "5">>,
              <<"*", "/", "5">>, <<"a">>}
LdHours == {Star, <<"0">>, <<"2", "3">>, <<"2", "4">>, <<"a">>}
LdDoms == {Star, <<"1">>, <<"3", "1">>, <<"a">>}
LdMonths == {Star, <<"1">>, <<"1", "2">>, <<"a">>}
LdDows == {Star, <<"3">>, <<"0">>, <<"a">>, <<"1", "-", "5">>, <<"0", ",", "6">>,
           <<"6", ",", "0">>}

LdSchedules ==
    {ScheduleObject(mi, ho, dom, mo, dow) :
        mi \in LdMinutes, ho \in LdHours, dom \in LdDoms, mo \in LdMonths, dow \in LdDows}

LdOtherEntry ==
    Entry(JString("d"), JString("Y"), ScheduleObject(Star, Star, Star, Star, Star),
          NoConditions)

LdDocument(sched) ==
    JsonDoc(<<Entry(JString("d"), JString("X"), sched, NoConditions), LdOtherEntry>>)

LdNoLedger == [c \in Commands |-> NoEntry]

InitLoader ==
    /\ eng \in [schedule : LdSchedules, stage : {"entry"}, jobs : {<<>>},
                local_time : {EngIdle.local_time}, result : {FALSE}]
    /\ file = DocDaily
    /\ cpuUsage = 10
    /\ currentJobs = 1
    /\ heap = [c \in CellIds |->
                  IF c = 1 THEN Vector(ConstructorJobs(DocDaily, DocDaily, 10)) ELSE Free]
    /\ InitSched
    /\ InitStore

LdLoad ==
    /\ eng.stage = "entry"
    /\ eng' = [eng EXCEPT !.stage = "loaded",
                          !.jobs = LoadJobs(LdDocument(eng.schedule), cpuUsage)]
    /\ UNCHANGED <<sharedVars, schedVars, storeVars>>

LdEvaluate ==
    /\ eng.stage = "loaded"
    /\ eng.jobs # <<>>
    /\ \E lt \in EngTimes :
          eng' = [eng EXCEPT !.stage = "evaluated", !.local_time = lt,
                             !.result = ShouldRunJob(eng.jobs[1], lt, LdNoLedger)]
    /\ UNCHANGED <<sharedVars, schedVars, storeVars>>

NextLoader == LdLoad \/ LdEvaluate

SpecLoader == InitLoader /\ [][NextLoader]_vars

(***************************************************************************)
(* SpecPaths: one entry on each path of parseJobsFromJson (schedule as an  *)
(* object, as a cron string, of another type, absent), loaded and then     *)
(* handed to shouldRunJob.  For the entry without schedule the value that  *)
(* job.frequency holds is drawn from the enumerators and one value that is *)
(* none of them.                                                           *)
(***************************************************************************)
PathSchedules ==
    {ScheduleObject(mi, ho, Star, Star, dow) :
        mi \in {Star, <<"0">>}, ho \in {Star, <<"9">>}, dow \in {Star, <<"1", "-", "5">>}}
    \cup [type : {"string"},
          val : {<<"0", " ", "9", " ", "*", " ", "*", " ", "*">>,
                 <<"*", " ", " ", "*", " ", "1", "5", " ", "*", " ", "*", " ">>,
                 <<"0", " ", "9", " ", "*", " ", "*", " ", "0", ",", "6", " ", "x">>,
                 <<"0", " ", "9", " ", "*">>,
                 <<>>}]
    \cup {JNumber}
    \cup [type : {"absent"}, hour : {-1, 9}, minute : {-1, 0, 30}, day : {-1, 15},
          month : {-1, 6}, frequency : Frequencies \cup {"NOT_AN_ENUMERATOR"}]

InitPaths ==
    /\ eng \in [schedule : PathSchedules, stage : {"entry"}, jobs : {<<>>},
                local_time : {EngIdle.local_time}, result : {FALSE}]
    /\ file = DocDaily
    /\ cpuUsage = 10
    /\ currentJobs = 1
    /\ heap = [c \in CellIds |->
                  IF c = 1 THEN Vector(ConstructorJobs(DocDaily, DocDaily, 10)) ELSE Free]
    /\ InitSched
    /\ InitStore

PtLoad ==
    /\ eng.stage = "entry"
    /\ eng' = [eng EXCEPT
                 !.stage = "loaded",
                 !.jobs = LoadJobs(JsonDoc(<<Entry(JString("d"), JString("X"),
                                                   eng.schedule, NoConditions)>>),
                                   cpuUsage)]
    /\ UNCHANGED <<sharedVars, schedVars, storeVars>>

PtEvaluate ==
    /\ eng.stage = "loaded"
    /\ eng.jobs # <<>>
    /\ \E lt \in EngTimes :
          eng' = [eng EXCEPT !.stage = "evaluated", !.local_time = lt,
                             !.result = ShouldRunJob(eng.jobs[1], lt, LdNoLedger)]
    /\ UNCHANGED <<sharedVars, schedVars, storeVars>>

NextPaths == PtLoad \/ PtEvaluate

SpecPaths == InitPaths /\ [][NextPaths]_vars

(***************************************************************************)
(* SpecCond: checkJobConditions on one CPU condition and one reading.  A   *)
(* threshold that is only the comparison character makes evaluateThreshold *)
(* call back() on an empty string, which is undefined: the call returns    *)
(* some character, or a library built with assertions ends the process.    *)
(***************************************************************************)
CondThresholds ==
    {<<"<", "5", "0">>, <<">", "5", "0">>, <<"<", "5", "0", "%">>, <<">", "5", "0", "%">>,
     <<"<", "5", "0", ".", "5">>, <<"5", "0">>, <<"=", "5", "0">>, <<"<", "a", "b", "c">>,
     <<"<", "%">>, <<"<">>, <<">">>, <<"<", "5", "0", "x">>, <<">", "5", "0", " ", "%">>,
     <<"<", "n", "a", "n">>, <<">", "n", "a", "n">>, <<">", "i", "n", "f">>, <<"%">>}

CondReadings == {-1, 0, 50, 51, 90}

InitCond ==
    /\ eng \in [stage : {"ready"},
                conditions : {NoConditions} \cup {CpuCondition(t) : t \in CondThresholds},
                cpu : CondReadings, result : {FALSE}]
    /\ file = DocDaily
    /\ cpuUsage = 10
    /\ currentJobs = 1
    /\ heap = [c \in CellIds |->
                  IF c = 1 THEN Vector(ConstructorJobs(DocDaily, DocDaily, 10)) ELSE Free]
    /\ InitSched
    /\ InitStore

CdCheck ==
    /\ eng.stage = "ready"
    /\ \/ eng' = [eng EXCEPT !.stage = "done",
                             !.result = CheckJobConditions(eng.conditions, eng.cpu)]
       \/ /\ eng.cpu >= 0
          /\ eng.conditions.cpu_threshold \in {<<"<">>, <<">">>}
          /\ eng' = [eng EXCEPT !.stage = "aborted"]
    /\ UNCHANGED <<sharedVars, schedVars, storeVars>>

SpecCond == InitCond /\ [][CdCheck]_vars

(***************************************************************************)
(* SpecExec: JobExecutor::executeJob applied to a command whose behaviour  *)
(* at each start is drawn from bounded sets, with and without the timeout  *)
(* utility on the system.                                                  *)
(***************************************************************************)
TimeoutExit == 124     \* exit status of timeout(1) when the time is up
NotFoundExit == 127    \* exit status of the shell when a command is not found
StatusShift == 256     \* std::system returns the exit status in the high byte

\* std::system("timeout 300 <command>") (lines 120-121): without the utility
\* the shell reports 127 and the command is not started; else the status is
\* 124 when the time is up and the command's own status otherwise.
TimedSystem(available, run) ==
    IF ~available THEN [status |-> NotFoundExit * StatusShift, started |-> 0]
    ELSE IF run.expires THEN [status |-> TimeoutExit * StatusShift, started |-> 1]
    ELSE [status |-> run.code * StatusShift, started |-> 1]

\* JobExecutor::executeWithTimeout, lines 120-138: first is the behaviour of
\* the command under timeout, second its behaviour if it is started again.
ExecuteWithTimeout(available, first, second) ==
    LET timed == TimedSystem(available, first)
    IN  IF timed.status = NotFoundExit * StatusShift
        THEN [result |-> second.code * StatusShift, started |-> timed.started + 1,
              untimed |-> TRUE]
        ELSE [result |-> timed.status, started |-> timed.started, untimed |-> FALSE]

\* JobExecutor::executeJob, lines 30-63: the outcome it logs, the exit code
\* in the message of a failure, and the levels of its log entries.
ExecuteJob(available, first, second) ==
    LET r == ExecuteWithTimeout(available, first, second)
    IN  [outcome |-> IF r.result = 0 THEN "success"
                     ELSE IF r.result = TimeoutExit * StatusShift THEN "timeout"
                     ELSE "failure",
         code |-> r.result \div StatusShift,
         started |-> r.started,
         untimed |-> r.untimed,
         levels |-> <<"info", IF r.result = 0 THEN "success" ELSE "error">>]

\* What the command does when it is started (first: under timeout, second:
\* started again): it is still running when the timeout is up, or it ends
\* before; code is the status it exits with when it is left to run to its end.
InitExec ==
    /\ \E behaviours \in {[expires : BOOLEAN,
                           code : {0, 1, TimeoutExit, NotFoundExit}]} :
          eng \in [stage : {"ready"}, available : BOOLEAN, first : behaviours,
                   second : behaviours,
                   out : {[outcome |-> "none", code |-> 0, started |-> 0,
                           untimed |-> FALSE, levels |-> <<>>]}]
    /\ file = DocDaily
    /\ cpuUsage = 10
    /\ currentJobs = Constructor(DocDaily, DocDaily, 10).currentJobs
    /\ heap = Constructor(DocDaily, DocDaily, 10).heap
    /\ InitSched
    /\ InitStore

ExExecute ==
    /\ eng.stage = "ready"
    /\ eng' = [eng EXCEPT !.stage = "done",
                          !.out = ExecuteJob(eng.available, eng.first, eng.second)]
    /\ UNCHANGED <<sharedVars, schedVars, storeVars>>

SpecExec == InitExec /\ [][ExExecute]_vars

(***************************************************************************)
(* Spec: the scheduler loop of nanoCron.cpp, lines 204-278.                *)
(***************************************************************************)
\* The calendar of the model: a day of two hours of two minutes.
Hours == {0, 1}
Minutes == {0, 1}
MinutesPerHour == Cardinality(Minutes)
HoursPerDay == Cardinality(Hours)
LastTick == (MaxDay + 1) * HoursPerDay * MinutesPerHour * TicksPerMinute - 1

MinuteIndex(t) == t \div TicksPerMinute

\* std::time + localtime_r, on the calendar of the model.
LocalTime(t) ==
    LET m == MinuteIndex(t)
        day == m \div (MinutesPerHour * HoursPerDay)
    IN  [tm_min |-> m % MinutesPerHour,
         tm_hour |-> (m \div MinutesPerHour) % HoursPerDay,
         tm_wday |-> day % 7,
         tm_mday |-> day + 1,
         tm_mon |-> 0,
         tm_yday |-> day]

Min2(a, b) == IF a < b THEN a ELSE b
ExecDurations == 0..Min2(MaxExecTicks, TimeoutSeconds \div TickSeconds)

\* executeJob, lines 53-62: exit status 0, 124 * 256, anything else.  A command
\* that times out has run for the whole timeout.
Outcomes == {"success", "timeout", "failure"}
TimeoutTicks == Min2(MaxExecTicks, TimeoutSeconds \div TickSeconds)

TickVector == heap[tickJobs].jobs
CurrentJob == TickVector[idx]
CalendarMinute(lt) == <<lt.tm_yday, lt.tm_hour, lt.tm_min>>

\* Lines 204-243: the loop test, the time capture, getJobs and the test of
\* the snapshot for emptiness.
TickStart ==
    /\ pc = "tick"
    /\ local_time' = LocalTime(clock)
    /\ tickJobs' = currentJobs
    /\ idx' = 1
    /\ pc' = IF heap[currentJobs].jobs # <<>> THEN "jobs" ELSE "sleep"
    /\ UNCHANGED <<eng, sharedVars, clock, last_execution, lastFire, result, storeVars,
                   shouldExit, executing>>

AfterJob == IF idx = Len(TickVector) THEN "sleep" ELSE "jobs"

\* A mutant of Dispatch: the ledger is written after a successful run only.
DispatchLedgerOnSuccess ==
    /\ pc = "jobs"
    /\ ShouldRunJob(CurrentJob, local_time, last_execution)
    /\ \E d \in ExecDurations, res \in Outcomes :
          /\ res = "timeout" => d = TimeoutTicks
          /\ clock + d <= LastTick
          /\ clock' = clock + d
          /\ result' = res
          /\ last_execution' =
                IF res = "success"
                THEN [last_execution EXCEPT ![CurrentJob.command] =
                          <<local_time.tm_hour, local_time.tm_min>>]
                ELSE last_execution
    /\ lastFire' = [lastFire EXCEPT ![CurrentJob.command] = CalendarMinute(local_time)]
    /\ idx' = idx + 1
    /\ pc' = AfterJob
    /\ UNCHANGED <<eng, sharedVars, local_time, tickJobs, storeVars, shouldExit, executing>>

\* A mutant of Dispatch: the ledger gets the time at which the execution
\* ended.
DispatchLedgerAtEnd ==
    /\ pc = "jobs"
    /\ ShouldRunJob(CurrentJob, local_time, last_execution)
    /\ \E d \in ExecDurations, res \in Outcomes :
          /\ res = "timeout" => d = TimeoutTicks
          /\ clock + d <= LastTick
          /\ clock' = clock + d
          /\ result' = res
          /\ last_execution' = [last_execution EXCEPT ![CurrentJob.command] =
                                    <<LocalTime(clock + d).tm_hour,
                                      LocalTime(clock + d).tm_min>>]
    /\ lastFire' = [lastFire EXCEPT ![CurrentJob.command] = CalendarMinute(local_time)]
    /\ idx' = idx + 1
    /\ pc' = AfterJob
    /\ UNCHANGED <<eng, sharedVars, local_time, tickJobs, storeVars, shouldExit, executing>>

\* Lines 252-257 for a due job: executeJob runs the command to its end (or to
\* the timeout), then the ledger is written.
Dispatch ==
    /\ pc = "jobs"
    /\ ShouldRunJob(CurrentJob, local_time, last_execution)
    /\ \E d \in ExecDurations, res \in Outcomes :
          /\ res = "timeout" => d = TimeoutTicks
          /\ clock + d <= LastTick
          /\ clock' = clock + d
          /\ result' = res
    /\ last_execution' = [last_execution EXCEPT ![CurrentJob.command] =
                              <<local_time.tm_hour, local_time.tm_min>>]
    /\ lastFire' = [lastFire EXCEPT ![CurrentJob.command] = CalendarMinute(local_time)]
    /\ idx' = idx + 1
    /\ pc' = AfterJob
    /\ UNCHANGED <<eng, sharedVars, local_time, tickJobs, storeVars, shouldExit, executing>>

\* Line 252 for a job that is not due.
SkipJob ==
    /\ pc = "jobs"
    /\ ~ShouldRunJob(CurrentJob, local_time, last_execution)
    /\ idx' = idx + 1
    /\ pc' = AfterJob
    /\ result' = "none"
    /\ UNCHANGED <<eng, sharedVars, clock, local_time, tickJobs, last_execution,
                   lastFire, storeVars, shouldExit, executing>>

\* Line 277, and the end of the loop body, where the snapshot is let go.
Sleep ==
    /\ pc = "sleep"
    /\ clock + 1 <= LastTick
    /\ clock' = clock + 1
    /\ heap' = Release(heap, tickJobs, currentJobs)
    /\ tickJobs' = Null
    /\ pc' = "tick"
    /\ result' = "none"
    /\ UNCHANGED <<eng, currentJobs, cpuUsage, local_time, idx, last_execution,
                   lastFire, storeVars, shouldExit, executing>>

\* What a whole validateAndLoadConfig can return at CPU reading cpu, the file
\* being possibly rewritten between its three reads.
ReloadOutcomes ==
    [cpu \in CpuReadings |->
        {ValidateAndLoadConfig(fv, ft, fl, cpu) : fv \in Files, ft \in Files, fl \in Files}]

\* A mutant of Reload: the publish also empties the ledger.
ReloadClearingLedger ==
    \E r \in ReloadOutcomes[cpuUsage] :
        LET p == Publish(heap, currentJobs, {tickJobs} \cap CellIds, r.jobs)
        IN  /\ r.ok
            /\ heap' = p.heap
            /\ currentJobs' = p.currentJobs
            /\ last_execution' = [c \in Commands |-> NoEntry]
            /\ UNCHANGED <<eng, cpuUsage, clock, pc, local_time, tickJobs, idx, lastFire,
                           result, shouldExit, executing, storeVars>>

\* A successful validateAndLoadConfig (watcher-driven or forceReload) between
\* two steps of the loop; a failed one changes nothing.
Reload ==
    \E r \in ReloadOutcomes[cpuUsage] :
        LET p == Publish(heap, currentJobs, {tickJobs} \cap CellIds, r.jobs)
        IN  /\ r.ok
            /\ heap' = p.heap
            /\ currentJobs' = p.currentJobs
            /\ UNCHANGED <<eng, cpuUsage, schedVars, storeVars>>

\* The load of the machine changes.
CpuChange ==
    /\ \E c \in CpuReadings \ {cpuUsage} : cpuUsage' = c
    /\ UNCHANGED <<eng, currentJobs, heap, schedVars, storeVars>>

Next == TickStart \/ Dispatch \/ SkipJob \/ Sleep \/ Reload \/ CpuChange

Spec == Init /\ [][Next]_vars

(***************************************************************************)
(* SpecWarn: the loop of nanoCron.cpp seen from its else branch, lines     *)
(* 259-270.  eng.config_check_counter is main's counter, eng.since the     *)
(* ticks gone by since the last warning (it stops counting at MaxSince),   *)
(* eng.empty and eng.warned what the latest tick found and did.            *)
(***************************************************************************)
WarnEvery == 15
MaxSince == 17

InitWarn ==
    /\ eng = [config_check_counter |-> 0, since |-> 0, emitted |-> FALSE,
              empty |-> FALSE, warned |-> FALSE]
    /\ InitShared(Files)
    /\ InitSched
    /\ InitStore

\* A mutant of WnTick: the counter is not set back after the warning.
WnTickNoReset ==
    LET empty == heap[currentJobs].jobs = <<>>
        counter == IF empty THEN eng.config_check_counter + 1
                   ELSE eng.config_check_counter
        warn == empty /\ counter >= WarnEvery
    IN  /\ eng' = [config_check_counter |-> Min2(counter, WarnEvery),
                   since |-> IF warn THEN 0 ELSE Min2(eng.since + 1, MaxSince),
                   emitted |-> eng.emitted \/ warn,
                   empty |-> empty,
                   warned |-> warn]
        /\ UNCHANGED <<sharedVars, schedVars, storeVars>>

\* One iteration of the loop: getJobs, the test of line 243, and for an empty
\* or null snapshot the counter and the warning.
WnTick ==
    LET empty == heap[currentJobs].jobs = <<>>
        counter == IF empty THEN eng.config_check_counter + 1
                   ELSE eng.config_check_counter
        warn == empty /\ counter >= WarnEvery
    IN  /\ eng' = [config_check_counter |-> IF warn THEN 0 ELSE counter,
                   since |-> IF warn THEN 0 ELSE Min2(eng.since + 1, MaxSince),
                   emitted |-> eng.emitted \/ warn,
                   empty |-> empty,
                   warned |-> warn]
        /\ UNCHANGED <<sharedVars, schedVars, storeVars>>

NextWarn == WnTick \/ Reload \/ CpuChange

SpecWarn == InitWarn /\ [][NextWarn]_vars

(***************************************************************************)
(* SpecEquiv: a store is constructed on a document, and forceReload is     *)
(* then called with the document and the CPU reading as they were.         *)
(* eng.constructed is the set the constructor left in currentJobs.         *)
(***************************************************************************)
EquivEntries ==
    {Entry(JString("d"), JString("X"), Sched(Star, Star), NoConditions),
     Entry(JString("d"), JString("Y"), Sched(<<"1">>, <<"1">>), CpuCondition(Below50)),
     Entry(JString(""), JString("X"), Sched(Star, <<"1">>), NoConditions),
     Entry(JString("d"), JString(""), Sched(Star, Star), NoConditions),
     Entry(JString("d"), JAbsent, Sched(Star, Star), NoConditions),
     Entry(JAbsent, JString("X"), Sched(Star, Star), NoConditions),
     Entry(JString("d"), JNumber, Sched(Star, Star), NoConditions)}

EquivDocs ==
    Files \cup {NoJobsArray, JsonDoc(<<>>)}
    \cup {JsonDoc(<<e1, e2>>) : e1 \in EquivEntries, e2 \in EquivEntries}

InitEquiv ==
    /\ InitShared(EquivDocs)
    /\ eng = [stage |-> "constructed", constructed |-> heap[currentJobs].jobs,
              ok |-> FALSE]
    /\ InitSched
    /\ InitStore

EqForceReload ==
    /\ eng.stage = "constructed"
    /\ LET r == ValidateAndLoadConfig(file, file, file, cpuUsage)
           p == Publish(heap, currentJobs, {}, r.jobs)
       IN  /\ eng' = [eng EXCEPT !.stage = "reloaded", !.ok = r.ok]
           /\ heap' = IF r.ok THEN p.heap ELSE heap
           /\ currentJobs' = IF r.ok THEN p.currentJobs ELSE currentJobs
    /\ UNCHANGED <<cpuUsage, schedVars, storeVars>>

SpecEquiv == InitEquiv /\ [][EqForceReload]_vars

(***************************************************************************)
(* SpecStore: ConfigWatcher at the grain of its file reads and of its      *)
(* mutex.  The watcher thread runs watcherLoop; the main thread calls      *)
(* startWatching, getJobs, forceReload and stopWatching; the file is       *)
(* rewritten at any moment.  rl[t] is the frame of validateAndLoadConfig   *)
(* running in thread t.                                                    *)
(***************************************************************************)
\* A mutant of CanLock: the lock is taken whoever holds it.
CanLockAlways(m) == TRUE

\* std::lock_guard<std::mutex> lock(cacheMutex) goes on when the mutex is free.
CanLock(m) == m = NoOne

\* The cells the main thread owns: the snapshot of its tick, and the value of
\* its last getJobs once the copy is complete.
HeldByMain == ({tickJobs} \cup IF mpc # "get_ref" THEN {snap} ELSE {}) \cap CellIds

\* The files of SpecStore.
StoreFiles == {DocDaily, DocTwo, DocGated, DocEmptyCommand, DocWrongType, Malformed,
               Unreadable}

\* Something rewrites the configuration file in place with one of files, or
\* removes it (Unreadable).  While the file is watched an event is queued
\* (IN_MODIFY | IN_CLOSE_WRITE, line 140; IN_IGNORED when the file is
\* removed); the watch is on the file itself (line 139), so it ends with the
\* file and a file created later under the same name is not watched.
WriteFileFrom(files) ==
    /\ \E f \in files \ {file} :
          /\ file' = f
          /\ watch' = (watch /\ f.kind # "unreadable")
    /\ pending' = (pending \/ watch)
    /\ UNCHANGED <<eng, sharedVars, schedVars, wpc, rl, mutex, mpc, snap, isWatching,
                   shouldStop, inotifyFd, openFds, threads>>

WriteFile == WriteFileFrom(StoreFiles)

\* validateAndLoadConfig returns in thread t, res being "ok" for true and the
\* error it logged for false (lines 246, 254, 261): the watcher logs and goes
\* back to its loop test (lines 224-231), forceReload returns to its caller.
Return(t, res) ==
    /\ rl' = [rl EXCEPT ![t] = [NoFrame EXCEPT !.result = res]]
    /\ wpc' = IF t = "watcher" THEN "loop" ELSE wpc
    /\ mpc' = IF t = "main" THEN "ready" ELSE mpc

\* validateAndLoadConfig, line 245: validateJobsFile reads the file.
RlValidate(t) ==
    /\ rl[t].pc = "validate"
    /\ IF ValidateJobsFile(file)
       THEN rl' = [rl EXCEPT ![t].pc = "test"] /\ UNCHANGED <<wpc, mpc>>
       ELSE Return(t, "validation failed")
    /\ UNCHANGED <<eng, sharedVars, schedVars, file, pending, mutex, snap,
                   isWatching, shouldStop, inotifyFd, openFds, threads, watch>>

\* loadJobsFromFile, lines 293-298: the file is opened to see that it exists.
RlTest(t) ==
    /\ rl[t].pc = "test"
    /\ IF file.kind = "unreadable"
       THEN Return(t, "failed to load")
       ELSE rl' = [rl EXCEPT ![t].pc = "load"] /\ UNCHANGED <<wpc, mpc>>
    /\ UNCHANGED <<eng, sharedVars, schedVars, file, pending, mutex, snap,
                   isWatching, shouldStop, inotifyFd, openFds, threads, watch>>

\* loadJobs for each file and CPU reading of the model.
LoadedJobs == [f \in StoreFiles |-> [cpu \in CpuReadings |-> LoadJobs(f, cpu)]]

\* A mutant of RlCheckPasses: the loop of lines 259-268 is missing.
RlCheckPassesAlways(jobs) == TRUE

\* Lines 259-268: no job of the new set has an empty command.
RlCheckPasses(jobs) == ~HasEmptyCommand(jobs)

\* loadJobsFromFile, lines 301-309: loadJobs reads and parses the file; then
\* the new set is examined (lines 253-268).  With track, the frame of the
\* other thread is marked when it holds a set parsed from another content.
RlLoadTracking(t, track) ==
    /\ rl[t].pc = "load"
    /\ IF RlCheckPasses(LoadedJobs[file][cpuUsage])
       THEN /\ rl' = [o \in Threads |->
                        IF o = t
                        THEN [rl[t] EXCEPT !.pc = "lock", !.loaded = file,
                                           !.newJobs = LoadedJobs[file][cpuUsage]]
                        ELSE IF track
                        THEN [rl[o] EXCEPT !.overtaken =
                                 @ \/ (rl[o].pc \in {"lock", "assign"}
                                       /\ rl[o].loaded # file)]
                        ELSE rl[o]]
            /\ UNCHANGED <<wpc, mpc>>
       ELSE Return(t, "empty command")
    /\ UNCHANGED <<eng, sharedVars, schedVars, file, pending, mutex, snap,
                   isWatching, shouldStop, inotifyFd, openFds, threads, watch>>

RlLoad(t) == RlLoadTracking(t, FALSE)

\* Line 272.
RlLock(t) ==
    /\ rl[t].pc = "lock"
    /\ CanLock(mutex)
    /\ mutex' = t
    /\ rl' = [rl EXCEPT ![t].pc = "assign"]
    /\ UNCHANGED <<eng, sharedVars, schedVars, file, pending, wpc, mpc, snap,
                   isWatching, shouldStop, inotifyFd, openFds, threads, watch>>

\* Lines 273-277: currentJobs = newJobs, the lock is released and the reload
\* reports success.
RlAssign(t) ==
    /\ rl[t].pc = "assign"
    /\ LET p == Publish(heap, currentJobs, HeldByMain, rl[t].newJobs)
       IN  /\ heap' = p.heap
           /\ currentJobs' = p.currentJobs
    /\ mutex' = NoOne
    /\ Return(t, "ok")
    /\ UNCHANGED <<eng, cpuUsage, schedVars, file, pending, snap, isWatching,
                   shouldStop, inotifyFd, openFds, threads, watch>>

RlStep(t) == RlValidate(t) \/ RlTest(t) \/ RlLoad(t) \/ RlLock(t) \/ RlAssign(t)

\* watcherLoop, lines 180-224: select reports the queued events, read takes
\* them all off the queue, and after the 100 ms sleep validateAndLoadConfig
\* is entered.
WatcherRead ==
    /\ wpc = "loop"
    /\ ~shouldStop
    /\ pending
    /\ pending' = FALSE
    /\ wpc' = "reload"
    /\ rl' = [rl EXCEPT !["watcher"] = [NoFrame EXCEPT !.pc = "validate"]]
    /\ UNCHANGED <<eng, sharedVars, schedVars, file, mutex, mpc, snap, isWatching,
                   shouldStop, inotifyFd, openFds, threads, watch>>

\* Line 180: the loop ends when shouldStop is set, and the thread ends.
WatcherExit ==
    /\ wpc = "loop"
    /\ shouldStop
    /\ wpc' = "exited"
    /\ threads' = threads - 1
    /\ UNCHANGED <<eng, sharedVars, schedVars, file, pending, rl, mutex, mpc, snap,
                   isWatching, shouldStop, inotifyFd, openFds, watch>>

\* Lines 193-197 and 210-214: select or read fails and the loop is left.
WatcherFail ==
    /\ wpc = "loop"
    /\ ~shouldStop
    /\ wpc' = "exited"
    /\ threads' = threads - 1
    /\ UNCHANGED <<eng, sharedVars, schedVars, file, pending, rl, mutex, mpc, snap,
                   isWatching, shouldStop, inotifyFd, openFds, watch>>

WatcherStep == WatcherRead \/ WatcherExit \/ RlStep("watcher")

\* A mutant of StartWatching: the test of isWatching (lines 51-54) is missing.
StartWatchingNoGuard(ret) ==
    \/ /\ ret = FALSE
       /\ UNCHANGED <<shouldStop, isWatching, wpc, pending, inotifyFd, openFds, threads, watch>>
    \/ /\ file.kind # "unreadable"
       /\ threads < 2
       /\ ret = TRUE
       /\ shouldStop' = FALSE
       /\ isWatching' = TRUE
       /\ wpc' = "loop"
       /\ pending' = FALSE
       /\ inotifyFd' = OpenFd
       /\ openFds' = openFds + 1
       /\ watch' = TRUE
       /\ threads' = threads + 1

\* A mutant of StartWatching: when inotify_add_watch fails, the descriptor of
\* inotify_init1 is left open (lines 144-145 missing).
StartWatchingLeak(ret) ==
    \/ /\ isWatching
       /\ ret = TRUE
       /\ UNCHANGED <<shouldStop, isWatching, wpc, pending, inotifyFd, openFds, threads, watch>>
    \/ /\ ~isWatching
       /\ openFds < 2
       /\ ret = FALSE
       /\ openFds' = openFds + 1
       /\ UNCHANGED <<shouldStop, isWatching, wpc, pending, inotifyFd, watch, threads>>
    \/ /\ ~isWatching
       /\ file.kind # "unreadable"
       /\ ret = TRUE
       /\ shouldStop' = FALSE
       /\ isWatching' = TRUE
       /\ wpc' = "loop"
       /\ pending' = FALSE
       /\ inotifyFd' = OpenFd
       /\ openFds' = openFds + 1
       /\ watch' = TRUE
       /\ threads' = threads + 1

\* startWatching, lines 50-77, returning ret.  A watching watcher returns true
\* at once (51-54).  initializeInotify (130-150) fails when inotify_init1
\* fails or the file cannot be watched (it does when the file is not there),
\* and then nothing is left open; so it is when the thread cannot be created
\* (71-76).  Otherwise the flags are set and the thread runs watcherLoop.
StartWatching(ret) ==
    \/ /\ isWatching
       /\ ret = TRUE
       /\ UNCHANGED <<shouldStop, isWatching, wpc, pending, inotifyFd, openFds, threads, watch>>
    \/ /\ ~isWatching
       /\ ret = FALSE
       /\ UNCHANGED <<shouldStop, isWatching, wpc, pending, inotifyFd, openFds, threads, watch>>
    \/ /\ ~isWatching
       /\ file.kind # "unreadable"
       /\ ret = TRUE
       /\ shouldStop' = FALSE
       /\ isWatching' = TRUE
       /\ wpc' = "loop"
       /\ pending' = FALSE
       /\ inotifyFd' = OpenFd
       /\ openFds' = openFds + 1
       /\ watch' = TRUE
       /\ threads' = threads + 1

MainStartWatching ==
    /\ mpc = "ready"
    /\ \E ret \in BOOLEAN : StartWatching(ret)
    /\ UNCHANGED <<eng, sharedVars, schedVars, file, rl, mutex, mpc, snap>>

\* A mutant of StopWatching: cleanupInotify is called before the join.
StopWatchingCloseFirst ==
    IF ~isWatching
    THEN UNCHANGED <<shouldStop, isWatching, mpc, inotifyFd, openFds, watch>>
    ELSE /\ shouldStop' = TRUE
         /\ isWatching' = FALSE
         /\ mpc' = "joining"
         /\ inotifyFd' = NoFd
         /\ openFds' = openFds - 1
         /\ watch' = FALSE

\* A mutant of StopWatching: the flags are set and the function returns
\* without joining the thread.
StopWatchingNoJoin ==
    IF ~isWatching
    THEN UNCHANGED <<shouldStop, isWatching, mpc, inotifyFd, openFds, watch>>
    ELSE /\ shouldStop' = TRUE
         /\ isWatching' = FALSE
         /\ UNCHANGED <<mpc, inotifyFd, openFds, watch>>

\* stopWatching, lines 83-90: nothing when not watching; else the flags are
\* set and the thread is joined.
StopWatching ==
    IF ~isWatching
    THEN UNCHANGED <<shouldStop, isWatching, mpc, inotifyFd, openFds, watch>>
    ELSE /\ shouldStop' = TRUE
         /\ isWatching' = FALSE
         /\ mpc' = "joining"
         /\ UNCHANGED <<inotifyFd, openFds, watch>>

MainStopWatching ==
    /\ mpc = "ready"
    /\ StopWatching
    /\ UNCHANGED <<eng, sharedVars, schedVars, file, pending, wpc, rl, mutex, snap,
                   threads>>

\* stopWatching, lines 92-97: join returns, cleanupInotify (156-166) removes
\* the watch and closes the descriptor if it is open.
MainJoined ==
    /\ mpc = "joining"
    /\ wpc = "exited"
    /\ wpc' = "none"
    /\ pending' = FALSE
    /\ mpc' = "ready"
    /\ inotifyFd' = NoFd
    /\ openFds' = IF inotifyFd # NoFd THEN openFds - 1 ELSE openFds
    /\ watch' = FALSE
    /\ UNCHANGED <<eng, sharedVars, schedVars, file, rl, mutex, snap, isWatching,
                   shouldStop, threads>>

\* getJobs is called, the snapshot of the previous call being let go, and
\* takes the lock (line 105).
MainGetJobs ==
    /\ mpc = "ready"
    /\ CanLock(mutex)
    /\ heap' = Release(heap, snap, currentJobs)
    /\ snap' = Null
    /\ mutex' = "main"
    /\ mpc' = "get_read"
    /\ UNCHANGED <<eng, currentJobs, cpuUsage, schedVars, file, pending, wpc, rl,
                   isWatching, shouldStop, inotifyFd, openFds, threads, watch>>

\* getJobs, line 106: the copy of the shared pointer reads the pointer ...
MainGetRead ==
    /\ mpc = "get_read"
    /\ snap' = currentJobs
    /\ mpc' = "get_ref"
    /\ UNCHANGED <<eng, sharedVars, schedVars, file, pending, wpc, rl, mutex,
                   isWatching, shouldStop, inotifyFd, openFds, threads, watch>>

\* ... and then becomes an owner of the vector, if the vector is still there;
\* getJobs returns and the lock_guard is destroyed.
MainGetRef ==
    /\ mpc = "get_ref"
    /\ snap' = IF heap[snap].live THEN snap ELSE Dangling
    /\ mutex' = NoOne
    /\ mpc' = "ready"
    /\ UNCHANGED <<eng, sharedVars, schedVars, file, pending, wpc, rl, isWatching,
                   shouldStop, inotifyFd, openFds, threads, watch>>

\* forceReload, lines 121-123.
MainForceReload ==
    /\ mpc = "ready"
    /\ mpc' = "reload"
    /\ rl' = [rl EXCEPT !["main"] = [NoFrame EXCEPT !.pc = "validate"]]
    /\ UNCHANGED <<eng, sharedVars, schedVars, file, pending, wpc, mutex, snap,
                   isWatching, shouldStop, inotifyFd, openFds, threads, watch>>

\* isConfigValid, lines 113-115: the function is entered without taking
\* cacheMutex ...
MainIsConfigValid ==
    /\ mpc = "ready"
    /\ mpc' = "valid"
    /\ UNCHANGED <<eng, sharedVars, schedVars, file, pending, wpc, rl, mutex, snap,
                   isWatching, shouldStop, inotifyFd, openFds, threads, watch>>

\* ... and `currentJobs && !currentJobs->empty()` reads the pointer and
\* returns a bool, which is all the caller gets.
MainValidRead ==
    /\ mpc = "valid"
    /\ mpc' = "ready"
    /\ UNCHANGED <<eng, sharedVars, schedVars, file, pending, wpc, rl, mutex, snap,
                   isWatching, shouldStop, inotifyFd, openFds, threads, watch>>

\* The steps of an operation the main thread is in the middle of.
MainProgress == MainGetRead \/ MainGetRef \/ RlStep("main")

\* One CPU reading is enough: it is the one at which the condition of DocGated
\* does not hold.
InitSpecStore ==
    eng = EngIdle /\ InitShared(StoreFiles) /\ cpuUsage = 90 /\ InitSched /\ InitStore

NextStore ==
    \/ WriteFile
    \/ WatcherStep
    \/ WatcherFail
    \/ MainStartWatching
    \/ MainStopWatching
    \/ MainJoined
    \/ MainGetJobs
    \/ MainForceReload
    \/ MainProgress

SpecStore == InitSpecStore /\ [][NextStore]_vars

(***************************************************************************)
(* Claims on the scheduler loop.                                           *)
(***************************************************************************)
\* The step in which main finds the current job due and executes it.
DispatchStep ==
    /\ pc = "jobs"
    /\ idx' = idx + 1
    /\ ShouldRunJob(CurrentJob, local_time, last_execution)

MinuteOf(lt) == (lt.tm_yday * HoursPerDay + lt.tm_hour) * MinutesPerHour + lt.tm_min

\* C1: a command is never dispatched in a tick whose captured calendar minute
\* (day, hour, minute) is the one of the command's previous dispatch; the
\* captured times of successive ticks never decrease, so no command is
\* dispatched twice among the ticks of one calendar minute.
C1_OneDispatchPerMinute ==
    [][DispatchStep => lastFire[CurrentJob.command] # CalendarMinute(local_time)]_vars

\* C1 witness: the second of two jobs sharing a command is reached, at its
\* hour, in the minute in which the command was dispatched, after a reload
\* has replaced the published set.
C1_Witness ==
    /\ pc = "jobs"
    /\ idx = 2
    /\ TickVector[1].command = TickVector[2].command
    /\ CurrentJob.hour = local_time.tm_hour
    /\ lastFire[CurrentJob.command] = CalendarMinute(local_time)
    /\ currentJobs # tickJobs

\* C2: when a tick is over, every DAILY job of its snapshot whose literal hour
\* and minute are the captured ones has been dispatched in the captured
\* calendar minute, on every day.
C2_DailyJobRunsEveryDay ==
    (pc = "sleep" /\ tickJobs \in CellIds) =>
        \A i \in 1..Len(TickVector) :
            (/\ TickVector[i].frequency = "DAILY"
             /\ TickVector[i].hour = local_time.tm_hour
             /\ TickVector[i].minute = local_time.tm_min)
            => lastFire[TickVector[i].command] = CalendarMinute(local_time)

\* C6: from the snapshot to the end of the tick main holds the same vector,
\* and no step changes the content of a vector that main holds, whatever is
\* published meanwhile.
C6_SnapshotIsStable ==
    [][(tickJobs \in CellIds) =>
          ((pc # "sleep" => tickJobs' = tickJobs)
           /\ (tickJobs' = tickJobs => heap'[tickJobs] = heap[tickJobs]))]_vars

\* C6 witness: main is in the middle of its iteration over a set that a
\* publish has meanwhile replaced by a different one.
C6_Witness ==
    /\ pc = "jobs"
    /\ idx = 2
    /\ currentJobs # tickJobs
    /\ heap[currentJobs].jobs # heap[tickJobs].jobs

\* C9: the captured time of a tick lies in the minute of the previous tick or
\* in the next one, so that no wall-clock minute is without a tick.
C9_EveryMinuteHasATick ==
    [][(pc = "tick" /\ pc' # "tick") =>
          MinuteIndex(clock) <= MinuteOf(local_time) + 1]_vars

\* C11: a dispatch, whatever executeJob's outcome, is one ledger write: the
\* ledger afterwards is the ledger before with the command's entry set to the
\* captured (hour, minute); no other step of the loop changes the ledger.
C11_LedgerWrittenOncePerDispatch ==
    [][/\ DispatchStep =>
            (/\ result' \in Outcomes
             /\ last_execution' = [last_execution EXCEPT ![CurrentJob.command] =
                                       <<local_time.tm_hour, local_time.tm_min>>])
       /\ ~DispatchStep => last_execution' = last_execution]_vars

\* C11 witness: a run that ended in a timeout or a failure has just been
\* recorded in the ledger.
C11_Witness ==
    /\ result \in {"timeout", "failure"}
    /\ \E c \in Commands : /\ lastFire[c] = CalendarMinute(local_time)
                            /\ last_execution[c] = <<local_time.tm_hour, local_time.tm_min>>

\* C32: no step of the loop and no publish takes an entry out of the ledger,
\* a publish leaves the ledger as it is, and a command is not dispatched in
\* the calendar minute of its last dispatch, whatever set is published in
\* between.
C32_LedgerOnlyGrows ==
    [][/\ \A c \in Commands : last_execution[c] # NoEntry => last_execution'[c] # NoEntry
       /\ currentJobs' # currentJobs => last_execution' = last_execution
       /\ DispatchStep => lastFire[CurrentJob.command] # CalendarMinute(local_time)]_vars

\* C32 witness: a command has its ledger entry, written in the captured
\* minute, and the set published since does not hold the command any more.
C32_Witness ==
    \E c \in Commands :
        /\ last_execution[c] = <<local_time.tm_hour, local_time.tm_min>>
        /\ lastFire[c] = CalendarMinute(local_time)
        /\ currentJobs # tickJobs
        /\ \A i \in 1..Len(heap[currentJobs].jobs) : heap[currentJobs].jobs[i].command # c
        /\ heap[currentJobs].jobs # <<>>

\* C33: a warning is emitted only in a tick whose snapshot is empty, and a
\* warning that follows an earlier one comes at least WarnEvery ticks after
\* it.
C33_WarningRateLimited ==
    /\ [] (eng.warned => eng.empty)
    /\ [][(eng'.warned /\ eng.emitted /\ eng' # eng) => eng.since + 1 >= WarnEvery]_vars

\* C33 witness: a second warning has just been emitted, after ticks with a
\* non-empty snapshot in between.
C33_Witness ==
    /\ eng.warned
    /\ eng.since = 0
    /\ eng.emitted
    /\ heap[currentJobs].jobs = <<>>
    /\ currentJobs # 1

\* C38: the time of a tick is captured once, at its start; each job of the
\* snapshot is dispatched or passed over according to shouldRunJob at that
\* captured time, and the ledger entry of a dispatched job is the captured
\* (hour, minute), however long the executions of the tick last.
C38_OneTimePerTick ==
    [][/\ local_time' # local_time => (pc = "tick" /\ local_time' = LocalTime(clock))
       /\ (pc = "jobs" /\ idx' = idx + 1) =>
             ((result' \in Outcomes)
                 <=> ShouldRunJob(CurrentJob, local_time, last_execution))
       /\ (pc = "jobs" /\ idx' = idx + 1 /\ result' \in Outcomes) =>
             last_execution'[CurrentJob.command] =
                 <<local_time.tm_hour, local_time.tm_min>>]_vars

\* C38 witness: the first job of the tick ran across a minute boundary, and
\* the second job, due at the time the clock now shows, has been passed over
\* on the captured time.
C38_Witness ==
    /\ tickJobs \in CellIds
    /\ Len(TickVector) = 2
    /\ idx = 3
    /\ result = "none"
    /\ lastFire[TickVector[1].command] = CalendarMinute(local_time)
    /\ last_execution[TickVector[1].command] = <<local_time.tm_hour, local_time.tm_min>>
    /\ LocalTime(clock).tm_min # local_time.tm_min
    /\ ShouldRunJob(TickVector[2], LocalTime(clock), last_execution)

\* C10: a job is dispatched only if its resource conditions are satisfied at
\* the tick in which it is due.
C10_GatedAtDispatch ==
    [][DispatchStep => CheckJobConditions(CurrentJob.conditions, cpuUsage)]_vars

(***************************************************************************)
(* Claims on shouldRunJob (SpecEngine).                                    *)
(***************************************************************************)
Monday == 1
Friday == 5
Saturday == 6
Sunday == 0

FrequencyCheck(job, lt) ==
    \/ job.frequency = "DAILY"
    \/ job.frequency = "WEEKLY" /\ lt.tm_wday = job.day_param
    \/ job.frequency = "MONTHLY" /\ lt.tm_mday = job.day_param
    \/ job.frequency = "YEARLY" /\ lt.tm_mday = job.day_param
                                /\ lt.tm_mon + 1 = job.month_param
    \/ job.frequency = "WEEKDAY" /\ lt.tm_wday \in Monday..Friday
    \/ job.frequency = "WEEKEND" /\ lt.tm_wday \in {Saturday, Sunday}

\* C8: the value shouldRunJob returns is the conjunction of the minute match
\* (wildcard, interval or equal), the hour match (wildcard or equal), the
\* ledger entry of the command not being (hour, minute) of now, and the
\* frequency check; so a wildcard DAILY job is due exactly when the ledger
\* does not hold the pair of now for its command.
C8_ShouldRunIsConjunction ==
    eng.evaluated =>
        LET job == eng.job
            lt == eng.local_time
            now == <<lt.tm_hour, lt.tm_min>>
        IN  /\ eng.result =
                 (/\ job.minute \in {WildcardMarker, IntervalMarker, lt.tm_min}
                  /\ job.hour \in {WildcardMarker, lt.tm_hour}
                  /\ eng.last_exec[job.command] # now
                  /\ FrequencyCheck(job, lt))
            /\ (/\ job.minute = WildcardMarker
                /\ job.hour = WildcardMarker
                /\ job.frequency = "DAILY")
               => (eng.result = (eng.last_exec[job.command] # now))

\* C8 witness: a YEARLY job with the interval marker is found due on its day
\* of December while the ledger holds another minute for its command.
C8_Witness ==
    /\ eng.evaluated
    /\ eng.result
    /\ eng.job.frequency = "YEARLY"
    /\ eng.job.minute = IntervalMarker
    /\ eng.local_time.tm_mon = 11
    /\ eng.last_exec[eng.job.command] # NoEntry

(***************************************************************************)
(* Claims on the configuration store (SpecStore).                          *)
(***************************************************************************)
\* C3: when the set a reload has parsed holds a job with an empty command,
\* the reload ends there reporting failure and the published set is the one
\* it was; no reload gets to the lock with such a set.
C3_EmptyCommandKeepsSet ==
    [][\A t \in Threads :
          /\ (/\ rl[t].pc = "load"
              /\ rl'[t].pc # "load"
              /\ HasEmptyCommand(LoadJobs(file, cpuUsage)))
             => (/\ rl'[t].pc = "idle"
                 /\ rl'[t].result # "ok"
                 /\ currentJobs' = currentJobs
                 /\ heap'[currentJobs] = heap[currentJobs])
          /\ (rl'[t].pc \in {"lock", "assign"} => ~HasEmptyCommand(rl'[t].newJobs))]_vars

\* C3 witness: the watcher's reload has ended on an empty command while a
\* non-empty set is published.
C3_Witness ==
    /\ rl["watcher"].pc = "idle"
    /\ rl["watcher"].result = "empty command"
    /\ wpc = "loop"
    /\ heap[currentJobs].jobs # <<>>

\* The configuration errors: unreadable file, malformed document, no "jobs"
\* array, a required field missing or not a string.
IsConfigError(f) ==
    \/ f.kind # "json"
    \/ ~f.hasJobs
    \/ \E i \in 1..Len(f.jobs) :
          f.jobs[i].description.type # "string" \/ f.jobs[i].command.type # "string"

\* C4: a reload that has read a configuration error leaves the published
\* non-empty set in place.
C4_ErrorKeepsSet ==
    [][\A t \in Threads :
          (/\ rl[t].pc = "assign"
           /\ IsConfigError(rl[t].loaded)
           /\ heap[currentJobs].jobs # <<>>)
          => heap'[currentJobs'].jobs = heap[currentJobs].jobs]_vars

CompleteSets == {LoadJobs(f, c) : f \in Files, c \in CpuReadings}

\* C5: the pointer getJobs returns is the published one, the one before a
\* concurrent publish or the one after it; it points to a live vector that
\* holds a set exactly as a load has produced it.
C5_SnapshotIsPublishedSet ==
    [][(mpc = "get_ref" /\ mpc' = "ready") =>
          (/\ snap' = currentJobs
           /\ snap' \in CellIds
           /\ heap'[snap'].live
           /\ heap'[snap'].jobs \in CompleteSets)]_vars

\* C5 witness: the main thread is in the middle of its copy while the watcher
\* waits for the lock with a different set to publish.
C5_Witness ==
    /\ mpc = "get_ref"
    /\ rl["watcher"].pc = "lock"
    /\ mutex = "main"
    /\ rl["watcher"].newJobs # heap[currentJobs].jobs

(***************************************************************************)
(* The store under fair scheduling: the watcher thread always gets to run,  *)
(* its wait for the mutex included, and the main thread finishes the        *)
(* operation it is in.  The file goes between the documents a reload        *)
(* accepts and a malformed one.                                             *)
(***************************************************************************)
\* The documents a reload accepts and publishes as they are.
ValidDocs == {DocDaily, DocTwo}

LiveFiles == ValidDocs \cup {Malformed}

WriteLiveFile == WriteFileFrom(LiveFiles)

\* One CPU reading is enough: none of these documents has a condition.
InitLiveStore ==
    eng = EngIdle /\ InitShared(LiveFiles) /\ cpuUsage = 10 /\ InitSched /\ InitStore

NextLiveStore ==
    \/ WriteLiveFile
    \/ WatcherStep
    \/ WatcherFail
    \/ MainStartWatching
    \/ MainStopWatching
    \/ MainJoined
    \/ MainGetJobs
    \/ MainForceReload
    \/ MainProgress

LiveSpecStore ==
    InitLiveStore /\ [][NextLiveStore]_vars /\ SF_vars(WatcherStep) /\ WF_vars(MainProgress)

(***************************************************************************)
(* SpecRace: getJobs, isConfigValid and forceReload on the main thread     *)
(* against the reloads of the watcher thread, the file being rewritten     *)
(* with valid documents; which frame has been overtaken by a later read is *)
(* recorded.                                                               *)
(***************************************************************************)
RcStep(t) ==
    RlValidate(t) \/ RlTest(t) \/ RlLoadTracking(t, TRUE) \/ RlLock(t) \/ RlAssign(t)

NextRace ==
    \/ WriteFileFrom(ValidDocs)
    \/ MainStartWatching
    \/ WatcherRead
    \/ RcStep("watcher")
    \/ MainForceReload
    \/ RcStep("main")
    \/ MainGetJobs
    \/ MainGetRead
    \/ MainGetRef
    \/ MainIsConfigValid
    \/ MainValidRead

SpecRace == InitSpecStore /\ [][NextRace]_vars

\* The watcher thread is in its loop and has not been told to stop.
WatcherRunning == wpc \in {"loop", "reload"} /\ ~shouldStop

\* C7: once the file has been changed to a valid document D under the eyes of
\* the running watcher (the event is queued, or queued again during the
\* debounce of an earlier one), either the file is changed again or the
\* watcher leaves its loop, or from some moment on the published set is the
\* one parsed from D for good.
C7_ReloadEventuallyEffective ==
    \A D \in ValidDocs :
        [] ((file = D /\ pending /\ WatcherRunning)
            => <> (\/ [] (/\ currentJobs \in CellIds
                          /\ heap[currentJobs].jobs = LoadJobs(D, cpuUsage))
                   \/ file # D
                   \/ ~WatcherRunning))

(***************************************************************************)
(* Claims on the loader (SpecLoader).                                      *)
(***************************************************************************)
\* The job loaded from the entry under test.
LdJob == eng.jobs[1]

\* A field that is one decimal digit 0..6.
SingleWeekdays == {<<"0">>, <<"1">>, <<"2">>, <<"3">>, <<"4">>, <<"5">>, <<"6">>}

\* The weekdays of EngTimes on which job is due at a time its minute and hour
\* match, the ledger being empty.
DueWeekdays(job) ==
    {lt.tm_wday : lt \in {t \in EngTimes : ShouldRunJob(job, t, LdNoLedger)}}

\* C12: a job classified WEEKLY from a day_of_week that is one integer d in
\* 0..6 has day_param = d and is due on weekday d and on no other.
C12_WeeklyDayParam ==
    (/\ eng.stage = "loaded"
     /\ eng.jobs # <<>>
     /\ eng.schedule.day_of_week \in SingleWeekdays
     /\ LdJob.frequency = "WEEKLY")
    => LET d == DigitValue(eng.schedule.day_of_week[1])
       IN  /\ LdJob.day_param = d
           /\ (LdJob.minute \in {WildcardMarker} \cup EngMinutes
               /\ LdJob.hour \in {WildcardMarker} \cup EngHours)
              => DueWeekdays(LdJob) = {d}

\* The days of a year, at the times of day of EngTimes.
LdCalendar ==
    [tm_min : EngMinutes, tm_hour : EngHours, tm_wday : {0}, tm_mday : 1..31,
     tm_mon : 0..11]

\* C13: a job classified YEARLY has a day_param in 1..31 and a month_param in
\* 1..12; when its minute and hour can match at all, it is due on some date,
\* and only on dates of month month_param.
C13_YearlyHasADate ==
    (/\ eng.stage = "loaded"
     /\ eng.jobs # <<>>
     /\ LdJob.frequency = "YEARLY")
    => /\ LdJob.day_param \in 1..31
       /\ LdJob.month_param \in 1..12
       /\ (LdJob.minute \in {WildcardMarker} \cup EngMinutes
           /\ LdJob.hour \in {WildcardMarker} \cup EngHours)
          => /\ \E lt \in LdCalendar : ShouldRunJob(LdJob, lt, LdNoLedger)
             /\ \A lt \in LdCalendar :
                   ShouldRunJob(LdJob, lt, LdNoLedger)
                   => (lt.tm_mday = LdJob.day_param /\ lt.tm_mon + 1 = LdJob.month_param)

\* A decimal integer literal: an optional minus sign and digits, nothing else.
IsInteger(s) ==
    LET t == IF s # <<>> /\ Head(s) = "-" THEN Tail(s) ELSE s
    IN  t # <<>> /\ \A i \in 1..Len(t) : t[i] \in Digits

StarOrInteger(s) == s = Star \/ IsInteger(s)

\* The frequency by precedence: day_of_week, then day_of_month, then month.
FrequencyByPrecedence(sc) ==
    IF sc.day_of_week # Star
    THEN (IF sc.day_of_week = <<"1", "-", "5">> THEN "WEEKDAY"
          ELSE IF sc.day_of_week \in {<<"0", ",", "6">>, <<"6", ",", "0">>} THEN "WEEKEND"
          ELSE "WEEKLY")
    ELSE IF sc.day_of_month # Star THEN "MONTHLY"
    ELSE IF sc.month # Star THEN "YEARLY"
    ELSE "DAILY"

IsInterval(s) == Len(s) >= 3 /\ s[1] = "*" /\ s[2] = "/" /\ IsInteger(SubSeq(s, 3, Len(s)))

\* The jobs loaded from the document under test with the minute field of its
\* first entry replaced by mi.
LdJobsWithMinute(mi) ==
    LoadJobs(LdDocument([eng.schedule EXCEPT !.minute = mi]), cpuUsage)

\* C15: a job with minute "*/N" is loaded, and at every time and with every
\* ledger it is due exactly when the job loaded from the same entry with
\* minute "*" is.
C15_IntervalAsWildcard ==
    (eng.stage = "loaded" /\ IsInterval(eng.schedule.minute))
    => /\ eng.jobs # <<>>
       /\ LdJob.command = "X"
       /\ \A lt \in EngTimes, led \in EngLedgers :
             ShouldRunJob(LdJob, lt, led) = ShouldRunJob(LdJobsWithMinute(Star)[1], lt, led)

\* C16: every loaded job has a minute that is the wildcard marker or in 0..59
\* and an hour that is the wildcard marker or in 0..23; the job of an entry
\* with an out-of-range literal is loaded, with 0 in that field.
C16_TimeFieldsInRange ==
    (eng.stage = "loaded")
    => /\ Len(eng.jobs) = 2
       /\ \A i \in 1..Len(eng.jobs) :
             /\ eng.jobs[i].minute \in {WildcardMarker} \cup 0..59
             /\ eng.jobs[i].hour \in {WildcardMarker} \cup 0..23
       /\ (IsInteger(eng.schedule.minute) /\ Stoi(eng.schedule.minute).val \notin 0..59)
          => LdJob.minute = 0
       /\ (IsInteger(eng.schedule.hour) /\ Stoi(eng.schedule.hour).val \notin 0..23)
          => LdJob.hour = 0

\* The field of a schedule by its name, and the schedule with a field replaced.
LdField(sc, name) ==
    CASE name = "minute" -> sc.minute [] name = "hour" -> sc.hour

LdWithField(sc, name, v) ==
    CASE name = "minute" -> [sc EXCEPT !.minute = v]
      [] name = "hour" -> [sc EXCEPT !.hour = v]

\* C17: when one of minute and hour is not a number and the other fields are,
\* both jobs of the document are loaded, the other job as it is alone, and the
\* job's remaining derived fields are those of the same entry with a valid
\* value ("0") in the malformed field.
C17_OnlyTheBadFieldDefaults ==
    \A bad \in {"minute", "hour"} :
        (/\ eng.stage = "loaded"
         /\ LdField(eng.schedule, bad) = <<"a">>
         /\ StarOrInteger(LdField(eng.schedule, IF bad = "minute" THEN "hour" ELSE "minute"))
         /\ StarOrInteger(eng.schedule.day_of_month)
         /\ StarOrInteger(eng.schedule.month))
        => LET ref == LoadJobs(LdDocument(LdWithField(eng.schedule, bad, <<"0">>)),
                               cpuUsage)[1]
           IN  /\ Len(eng.jobs) = 2
               /\ eng.jobs[2] = LoadJobs(JsonDoc(<<LdOtherEntry>>), cpuUsage)[1]
               /\ bad = "minute" => LdJob.hour = ref.hour
               /\ bad = "hour" => LdJob.minute = ref.minute
               /\ LdJob.frequency = ref.frequency
               /\ LdJob.day_param = ref.day_param
               /\ LdJob.month_param = ref.month_param

(***************************************************************************)
(* Further claims on the configuration store (SpecStore).                  *)
(***************************************************************************)
\* C18: no job of a set that getJobs has returned has an empty command, be
\* the set the one loaded at construction or one published by a reload.
C18_SnapshotCommandsNonEmpty ==
    (mpc = "ready" /\ snap \in CellIds) => ~HasEmptyCommand(heap[snap].jobs)

\* A file on which the load of the constructor fails.
LoadFails(f) == f.kind \in {"unreadable", "malformed"}

\* C19: the published pointer is never null and points to a live vector, and
\* so does every pointer getJobs has returned; after a failed load at
\* construction the published set is empty.
C19_NeverNull ==
    /\ currentJobs \in CellIds
    /\ LoadFails(file) => heap[currentJobs].jobs = <<>>
    /\ [](/\ currentJobs \in CellIds
          /\ heap[currentJobs].live
          /\ (mpc = "ready" /\ snap # Null) => (snap \in CellIds /\ heap[snap].live))

\* C19 witness: the file was unreadable at construction and still is, a
\* forceReload has failed, the watcher was started and stopped, and getJobs
\* has returned an empty set.
C19_Witness ==
    /\ file.kind = "unreadable"
    /\ rl["main"].result \in {"validation failed", "failed to load"}
    /\ wpc = "none"
    /\ shouldStop
    /\ ~isWatching
    /\ mpc = "ready"
    /\ snap \in CellIds
    /\ heap[snap].live
    /\ heap[snap].jobs = <<>>

\* A document whose entries all pass validation: description and command are
\* strings and no command is empty.
AllEntriesValid(f) ==
    /\ f.kind = "json"
    /\ f.hasJobs
    /\ \A i \in 1..Len(f.jobs) :
          /\ f.jobs[i].description.type = "string"
          /\ f.jobs[i].command.type = "string"
          /\ f.jobs[i].command.val # ""

\* C20: a reload that succeeds on a document of n valid entries publishes n
\* jobs, the i-th with the command of the i-th entry and with the frequency,
\* day_param and month_param derived from its schedule.
C20_RoundTrip ==
    [][\A t \in Threads :
          (/\ rl[t].pc = "assign"
           /\ rl'[t].result = "ok"
           /\ AllEntriesValid(rl[t].loaded))
          => LET entries == rl[t].loaded.jobs
                 jobs == heap'[currentJobs'].jobs
             IN  /\ Len(jobs) = Len(entries)
                 /\ \A i \in 1..Len(entries) :
                       i <= Len(jobs) =>
                          /\ jobs[i].command = entries[i].command.val
                          /\ jobs[i].frequency = JobOfEntry(entries[i]).frequency
                          /\ jobs[i].day_param = JobOfEntry(entries[i]).day_param
                          /\ jobs[i].month_param = JobOfEntry(entries[i]).month_param]_vars

(***************************************************************************)
(* Claims on the execution of a job (SpecExec).                            *)
(***************************************************************************)
\* C21: the outcome is Timeout exactly when the command was stopped because
\* the timeout was up; a command that ends by itself is a Success with exit
\* code 0 and a Failure with its code otherwise, 124 included.
C21_TimeoutIffExpired ==
    (eng.stage = "done")
    => LET expired == ~eng.out.untimed /\ eng.first.expires
           ExReported == IF eng.out.untimed THEN eng.second ELSE eng.first
       IN  /\ (eng.out.outcome = "timeout") = expired
           /\ ~expired =>
                 /\ (ExReported.code = 0) = (eng.out.outcome = "success")
                 /\ ExReported.code # 0 =>
                       (eng.out.outcome = "failure" /\ eng.out.code = ExReported.code)

\* C22: without the timeout utility the command is run once, untimed, and a
\* warning is logged; with the utility the command is run once, under the
\* timeout, and never a second time.
C22_FallbackOnlyWithoutTimeout ==
    (eng.stage = "done")
    => /\ ~eng.available =>
             /\ eng.out.untimed
             /\ eng.out.started = 1
             /\ \E i \in 1..Len(eng.out.levels) : eng.out.levels[i] = "warning"
       /\ eng.available => (~eng.out.untimed /\ eng.out.started = 1)

\* C35: one call of executeJob starts the command at most once, whatever the
\* command's exit status.
C35_CommandStartedAtMostOnce ==
    eng.stage = "done" => eng.out.started <= 1

(***************************************************************************)
(* SpecWatch: the main thread calls startWatching and stopWatching in any  *)
(* order while the watcher thread runs and the file is rewritten; the      *)
(* calls made and what they returned are recorded.                         *)
(***************************************************************************)
WatchFiles == ValidDocs \cup {Unreadable}

InitWatch ==
    /\ eng = [calls |-> <<>>]
    /\ InitShared(WatchFiles)
    /\ cpuUsage = 10
    /\ InitSched
    /\ InitStore

\* configWatcher.startWatching() is called and returns ret.
WtStart ==
    /\ mpc = "ready"
    /\ Len(eng.calls) < MaxCalls
    /\ \E ret \in BOOLEAN :
          /\ StartWatching(ret)
          /\ eng' = [calls |-> Append(eng.calls, <<"startWatching", ret>>)]
    /\ UNCHANGED <<sharedVars, schedVars, file, rl, mutex, mpc, snap>>

\* configWatcher.stopWatching() is called; the record says whether it found
\* the watcher watching.
WtStop ==
    /\ mpc = "ready"
    /\ Len(eng.calls) < MaxCalls
    /\ StopWatching
    /\ eng' = [calls |-> Append(eng.calls, <<"stopWatching", isWatching>>)]
    /\ UNCHANGED <<sharedVars, schedVars, file, pending, wpc, rl, mutex, snap, threads>>

NextWatch ==
    \/ WtStart
    \/ WtStop
    \/ MainJoined
    \/ WatcherStep
    \/ WatcherFail
    \/ WriteFileFrom(WatchFiles)

SpecWatch == InitWatch /\ [][NextWatch]_vars

(***************************************************************************)
(* SpecDaemon: main() of nanoCron.cpp from the call of startWatching to    *)
(* the return, with the watcher thread and the signal handler.  The        *)
(* calendar of this specification is one hour that repeats.                *)
(***************************************************************************)
TicksPerHour == MinutesPerHour * TicksPerMinute

InitDaemon ==
    /\ eng = EngIdle
    /\ InitShared(ValidDocs)
    /\ cpuUsage = 10
    /\ InitStore
    /\ clock = 0
    /\ pc = "start"
    /\ local_time = LocalTime(0)
    /\ tickJobs = Null
    /\ idx = 1
    /\ last_execution = [c \in Commands |-> NoEntry]
    /\ lastFire = [c \in Commands |-> NoEntry]
    /\ result = "none"
    /\ shouldExit = FALSE
    /\ executing = [c \in Commands |-> 0]

\* signalHandler, lines 50-55, on SIGTERM or SIGINT.
SignalHandler ==
    /\ pc # "stopped"
    /\ ~shouldExit
    /\ shouldExit' = TRUE
    /\ UNCHANGED <<eng, sharedVars, clock, pc, local_time, tickJobs, idx, last_execution,
                   lastFire, result, executing, storeVars>>

\* Lines 157-164: startWatching is called once; the daemon goes on to its
\* loop whatever it returns.
DmStartWatching ==
    /\ pc = "start"
    /\ \E ret \in BOOLEAN : StartWatching(ret)
    /\ pc' = "tick"
    /\ UNCHANGED <<eng, sharedVars, clock, local_time, tickJobs, idx, last_execution,
                   lastFire, result, shouldExit, executing, file, rl, mutex, mpc, snap>>

\* A mutant of DmTick: the loop does not test the flag.
DmTickIgnoringExit == CanLock(mutex) /\ TickStart

\* Line 204 with the flag clear, and lines 205-243; getJobs takes the lock.
DmTick == ~shouldExit /\ CanLock(mutex) /\ TickStart

\* Line 204 with the flag set: the loop is left.
DmLeave ==
    /\ pc = "tick"
    /\ shouldExit
    /\ pc' = "shutdown"
    /\ UNCHANGED <<eng, sharedVars, clock, local_time, tickJobs, idx, last_execution,
                   lastFire, result, shouldExit, executing, storeVars>>

\* A mutant of ExecStart: the command is started and not waited for.
ExecStartDetached ==
    /\ pc = "jobs"
    /\ ShouldRunJob(CurrentJob, local_time, last_execution)
    /\ executing[CurrentJob.command] < 2
    /\ executing' = [executing EXCEPT ![CurrentJob.command] = @ + 1]
    /\ idx' = idx + 1
    /\ pc' = AfterJob
    /\ UNCHANGED <<eng, sharedVars, clock, local_time, tickJobs, last_execution,
                   lastFire, result, shouldExit, storeVars>>

\* Lines 252-253 for a due job: executeJob is entered and std::system starts
\* the command (JobExecutor.cpp:121).
ExecStart ==
    /\ pc = "jobs"
    /\ ShouldRunJob(CurrentJob, local_time, last_execution)
    /\ executing' = [executing EXCEPT ![CurrentJob.command] = @ + 1]
    /\ pc' = "executing"
    /\ UNCHANGED <<eng, sharedVars, clock, local_time, tickJobs, idx, last_execution,
                   lastFire, result, shouldExit, storeVars>>

\* std::system returns when the command has ended or the timeout has stopped
\* it; executeJob logs the outcome and line 256 writes the ledger.
ExecFinish ==
    /\ pc = "executing"
    /\ \E d \in ExecDurations, res \in Outcomes :
          /\ res = "timeout" => d = TimeoutTicks
          /\ clock' = (clock + d) % TicksPerHour
          /\ result' = res
    /\ executing' = [executing EXCEPT ![CurrentJob.command] = @ - 1]
    /\ last_execution' = [last_execution EXCEPT ![CurrentJob.command] =
                              <<local_time.tm_hour, local_time.tm_min>>]
    /\ lastFire' = [lastFire EXCEPT ![CurrentJob.command] = CalendarMinute(local_time)]
    /\ idx' = idx + 1
    /\ pc' = AfterJob
    /\ UNCHANGED <<eng, sharedVars, local_time, tickJobs, shouldExit, storeVars>>

\* Line 277, and the end of the loop body, where the snapshot is let go.
DmSleep ==
    /\ pc = "sleep"
    /\ clock' = (clock + 1) % TicksPerHour
    /\ heap' = Release(heap, tickJobs, currentJobs)
    /\ tickJobs' = Null
    /\ pc' = "tick"
    /\ result' = "none"
    /\ UNCHANGED <<eng, currentJobs, cpuUsage, local_time, idx, last_execution,
                   lastFire, shouldExit, executing, storeVars>>

\* Line 288: stopWatching is called.
DmStopWatching ==
    /\ pc = "shutdown"
    /\ StopWatching
    /\ pc' = "stopping"
    /\ UNCHANGED <<eng, sharedVars, clock, local_time, tickJobs, idx, last_execution,
                   lastFire, result, shouldExit, executing, file, pending, wpc, rl,
                   mutex, snap, threads>>

\* Lines 289-294: stopWatching has returned; reset() destroys the watcher,
\* whose stopWatching finds it not watching, and main returns.
DmStopped ==
    /\ pc = "stopping"
    /\ mpc = "ready"
    /\ pc' = "stopped"
    /\ UNCHANGED <<eng, sharedVars, clock, local_time, tickJobs, idx, last_execution,
                   lastFire, result, shouldExit, executing, storeVars>>

\* The steps of the main thread.
DmMain ==
    \/ DmStartWatching
    \/ DmTick
    \/ DmLeave
    \/ ExecStart
    \/ ExecFinish
    \/ SkipJob
    \/ DmSleep
    \/ DmStopWatching
    \/ MainJoined
    \/ DmStopped

NextDaemon ==
    \/ DmMain
    \/ SignalHandler
    \/ WatcherStep
    \/ WatcherFail
    \/ WriteFileFrom(ValidDocs)

\* The threads are scheduled and a command that is executing ends.
SpecDaemon ==
    InitDaemon /\ [][NextDaemon]_vars /\ WF_vars(DmMain) /\ WF_vars(WatcherStep)

\* C26: there is never more than one watcher thread nor more than one open
\* inotify descriptor; startWatching on a watching watcher returns true and
\* creates no thread and no watch; stopWatching on a watcher that is not
\* watching changes nothing; a startWatching that succeeds on a stopped
\* watcher leaves a thread in the loop on an open descriptor.
C26_StartStopIdempotent ==
    /\ [](threads <= 1 /\ openFds <= 1)
    /\ [][(Len(eng.calls') > Len(eng.calls)) =>
            LET call == eng.calls'[Len(eng.calls')]
            IN  /\ (call[1] = "startWatching" /\ isWatching) =>
                      (call[2] /\ UNCHANGED <<sharedVars, storeVars>>)
                /\ (call[1] = "stopWatching" /\ ~isWatching) =>
                      UNCHANGED <<sharedVars, storeVars>>
                /\ (call[1] = "startWatching" /\ ~isWatching /\ call[2]) =>
                      /\ isWatching' /\ ~shouldStop'
                      /\ threads' = 1 /\ wpc' = "loop"
                      /\ inotifyFd' # NoFd /\ openFds' = 1]_vars

\* Witness of C26: start, start again, stop, stop again, start: one thread is
\* in the loop.
C26_Witness ==
    /\ eng.calls = << <<"startWatching", TRUE>>, <<"startWatching", TRUE>>,
                     <<"stopWatching", TRUE>>, <<"stopWatching", FALSE>>,
                     <<"startWatching", TRUE>> >>
    /\ threads = 1
    /\ wpc = "loop"

(***************************************************************************)
(* Claims on the life of the daemon (SpecDaemon).                          *)
(***************************************************************************)
\* C23: no command has two executions in progress at the same time.
C23_OneExecutionPerJob == \A c \in Commands : executing[c] <= 1

\* Witness of C23: the command, already run once, is executing again from a
\* set that a reload has published.
C23_Witness ==
    /\ pc = "executing"
    /\ executing["X"] = 1
    /\ last_execution["X"] # NoEntry
    /\ heap[tickJobs].jobs = LoadJobs(DocTwo, cpuUsage)
    /\ rl["watcher"].result = "ok"

C25_HandlesOutliveWatcher ==
    /\ [](wpc \in {"loop", "reload"} => inotifyFd # NoFd)
    /\ [](pc = "stopped" => (threads = 0 /\ openFds = 0 /\ inotifyFd = NoFd))
    /\ [][(inotifyFd # NoFd /\ inotifyFd' = NoFd) => threads = 0]_vars

\* Witness of C25: Stopped after a watcher that reloaded the file was joined.
C25_Witness ==
    /\ pc = "stopped"
    /\ shouldStop
    /\ rl["watcher"].result = "ok"
    /\ threads = 0
    /\ inotifyFd = NoFd

\* startWatching has returned false: the watcher is neither watching nor was
\* it ever told to stop.
StartFailed == pc # "start" /\ ~isWatching /\ ~shouldStop

\* C27: after a startWatching that failed there is no watcher thread and no
\* open descriptor, the daemon is Stopped only on a shutdown request, and the
\* published set stays the one loaded at construction, which every tick uses.
C27_FailedStartKeepsConstructionSet ==
    /\ [](StartFailed =>
            /\ threads = 0 /\ openFds = 0 /\ inotifyFd = NoFd /\ wpc = "none"
            /\ (pc = "stopped" => shouldExit)
            /\ tickJobs \in {Null, currentJobs})
    /\ [][StartFailed =>
            (currentJobs' = currentJobs /\ heap'[currentJobs] = heap[currentJobs])]_vars

\* Witness of C27: after the failed start and a rewrite of the file, a job of
\* the construction set is executing.
C27_Witness ==
    /\ StartFailed
    /\ pc = "executing"
    /\ heap[currentJobs].jobs # LoadJobs(file, cpuUsage)

(***************************************************************************)
(* Claims on failed reloads and unlocked reads (SpecStore).                *)
(***************************************************************************)
\* C28: a reload of the watcher that fails takes the watcher back to its loop
\* and leaves the main thread where it is; and when, after a failed reload,
\* the file is changed to a document a reload accepts, the running watcher
\* gets a change event for it.
C28_FailedReloadKeepsWatching ==
    [][/\ (wpc = "reload" /\ rl'["watcher"].pc = "idle" /\ rl'["watcher"].result # "ok")
          => (wpc' = "loop" /\ threads' = threads /\ mpc' = mpc)
       /\ (/\ wpc = "loop" /\ ~shouldStop
           /\ rl["watcher"].result \notin {"none", "ok"}
           /\ file' # file
           /\ file' \in ValidDocs)
          => pending']_vars

\* C36: when a reload publishes while the reload of the other thread has
\* finished, the other thread has not read a newer content of the file than
\* the one this reload publishes: the set left published by two overlapping
\* reloads is the one parsed from the content read last.
C36_LastPublishedIsNewest ==
    [][\A t \in Threads :
          (/\ rl[t].pc = "assign"
           /\ rl'[t].pc = "idle"
           /\ \A o \in Threads \ {t} : rl[o].pc = "idle")
          => ~rl[t].overtaken]_vars

\* C37: while isWatching is true the watcher thread is in its loop (waiting
\* for events or reloading), and the thread leaves the loop only when
\* stopWatching has set shouldStop.
C37_WatchingMeansLooping ==
    /\ [] (isWatching => wpc \in {"loop", "reload"})
    /\ [][(wpc # "exited" /\ wpc' = "exited") => shouldStop]_vars

\* stopWatching has been called since the last startWatching and has returned.
Stopped == shouldStop /\ ~isWatching /\ mpc # "joining"

\* C39: once stopWatching has returned there is no watcher thread and no
\* reload of it under way; from then on only the assignment of a forceReload
\* changes the published set; and stopWatching returns only when the watcher
\* thread has left its loop, the reload it was in being over.
C39_NoReloadAfterStop ==
    /\ [] (Stopped => (wpc = "none" /\ rl["watcher"].pc = "idle" /\ threads = 0))
    /\ [][(Stopped /\ rl["main"].pc # "assign")
             => (currentJobs' = currentJobs /\ heap'[currentJobs] = heap[currentJobs])]_vars
    /\ [][(mpc = "joining" /\ mpc' # "joining")
             => (wpc = "exited" /\ rl["watcher"].pc = "idle")]_vars

\* C39 witness: stopWatching has returned after the watcher had reloaded at
\* least once, and the file holds a valid document that is not the published
\* set.
C39_Witness ==
    /\ Stopped
    /\ mpc = "ready"
    /\ rl["watcher"].result = "ok"
    /\ file \in ValidDocs
    /\ heap[currentJobs].jobs # LoadedJobs[file][cpuUsage]

\* C30: once the watcher thread exists, a thread that is about to read or
\* write currentJobs in getJobs, isConfigValid or a reload (forceReload on
\* main, validateAndLoadConfig on the watcher) holds cacheMutex.
C30_AccessUnderLock ==
    threads > 0 =>
        /\ mpc \in {"get_read", "valid"} => mutex = "main"
        /\ \A t \in {"main", "watcher"} : rl[t].pc = "assign" => mutex = t


(***************************************************************************)
(* Claims on the construction paths of a job (SpecPaths)                   *)
(***************************************************************************)
\* C29: every job the loader returns, on each of its four paths, has hour,
\* minute, frequency, day_param and month_param as the derivation step gives
\* them from the job's schedule fields, and its frequency is one of the
\* enumerators, so that shouldRunJob never sees a frequency nobody assigned.
C29_DerivedFieldsAssigned ==
    eng.stage # "entry" =>
        \A i \in 1..Len(eng.jobs) :
            LET job == eng.jobs[i]
                derived == ParseScheduleToLegacyFormat(job)
            IN  /\ job.frequency \in Frequencies
                /\ job.frequency = derived.frequency
                /\ job.hour = derived.hour
                /\ job.minute = derived.minute
                /\ job.day_param = derived.day_param
                /\ job.month_param = derived.month_param


(***************************************************************************)
(* Claims on the evaluation of conditions (SpecCond)                       *)
(***************************************************************************)
\* The text after the comparison character, less one trailing '%', is a
\* number: digits, with an optional sign and an optional fraction.
IsNumber(v) ==
    LET u == IF v # <<>> /\ Head(v) \in {"-", "+"} THEN Tail(v) ELSE v
        dots == {i \in 1..Len(u) : u[i] = "."}
    IN  /\ \E i \in 1..Len(u) : u[i] \in Digits
        /\ \A i \in 1..Len(u) : u[i] \in Digits \cup {"."}
        /\ Cardinality(dots) <= 1

WellFormed(th) ==
    /\ th # <<>>
    /\ Head(th) \in {"<", ">"}
    /\ LET raw == Tail(th)
       IN  IsNumber(IF raw # <<>> /\ raw[Len(raw)] = "%"
                    THEN SubSeq(raw, 1, Len(raw) - 1) ELSE raw)

\* C31: a job without conditions passes; a condition whose reading failed
\* (negative) or whose threshold is not "<number" or ">number" counts as
\* satisfied; a job is blocked only by a well-formed threshold that the
\* reading does not meet.
C31_FailOpen ==
    eng.stage # "ready" =>
        LET th == eng.conditions.cpu_threshold
            passes == eng.stage = "done" /\ eng.result
        IN  /\ ~eng.conditions.present => passes
            /\ eng.cpu < 0 => passes
            /\ (eng.conditions.present /\ ~WellFormed(th)) => passes
            /\ ~passes => /\ eng.stage = "done"
                          /\ WellFormed(th)
                          /\ eng.cpu >= 0


(***************************************************************************)
(* Claims on construction against reload (SpecEquiv)                       *)
(***************************************************************************)
\* C34: when the reload of the document the store was constructed on
\* succeeds, the set it publishes is the set the constructor held; when it
\* is rejected, the constructor held the empty set.
C34_ConstructionAsReload ==
    eng.stage = "reloaded" =>
        /\ eng.ok => heap[currentJobs].jobs = eng.constructed
        /\ ~eng.ok => eng.constructed = <<>>

=============================================================================
